---- MODULE Spec2Model ----
(***************************************************************************)
(* State-machine model of the codingforconvos conversation orchestrator:   *)
(* DialogFlowEsClient.intentHandler / handleIntentAndNavigate, the         *)
(* DialogContext sequence stack and ContextManager's authentication gate.  *)
(*                                                                         *)
(* A JavaScript string is a sequence of tokens.  A sequence name or an     *)
(* action segment is one token; "|" and "." are the delimiter tokens of    *)
(* the sequence stack and of action labels; the empty string is << >>.     *)
(* String concatenation is \o, and split / join / indexOf are computed on  *)
(* the tokens as String.prototype.split, Array.prototype.join and indexOf  *)
(* compute them on characters.                                             *)
(***************************************************************************)
EXTENDS Integers, Sequences, FiniteSets, TLC

VARIABLES
    sequences,       \* SequenceManager._sequences : name -> Sequence
    intents,         \* IntentManager._intents : action -> Intent
    intentContexts,  \* IntentManager._intentContexts : action -> sequenceName
    params,          \* parameters of the 'sessionprops' context (NoSession before the first turn)
    ctxs,            \* per-sequence contexts in the host store : name -> parameters
    pc,              \* position of the request in flight: "idle" | "handler" | "returned"
    turn,            \* record of the turn in flight (kept after the turn until the next begins)
    lastOp,          \* the last call made on the facade, on a registry or by a handler
    connectors,      \* ConnectorManager._connectors and its DefaultParameterManager
    hookCalls,       \* invocations of each bootstrap hook so far in the session
    heap,            \* the contexts as JavaScript objects: the store's entries and the
                     \* parameter objects they and the sequences hold
    requests         \* the requests of several sessions served by one client:
                     \* session id -> position, parameters object and turns served

vars == <<sequences, intents, intentContexts, params, ctxs, pc, turn, lastOp,
          connectors, hookCalls, heap, requests>>

----------------------------------------------------------------------------
\* Bounds of the model.

\* Largest number of stack entries at which a turn still begins, and that the
\* pushes of a handler may reach.
MaxStack == 3
\* Largest number of stack entries at which the facade is still asked to push
\* when it is driven call by call; the stack strings such a run starts from
\* have at most MaxFacadeStack + 1 tokens.
MaxFacadeStack == 2
\* Largest number of requests of a session on whose payload a bootstrap hook throws.
MaxBootFailures == 1
\* Largest number of entries the set-up phase adds to the registries.
MaxRegistrations == 3

----------------------------------------------------------------------------
\* Strings.

EMPTY == << >>
PIPE == <<"|">>
DOT == <<".">>
UNDEF == "undefined"

CTX_WELCOME == <<"welcome">>
CTX_RFC == <<"reasonforcontact">>
CTX_AUTH == <<"authentication">>
CTX_PWRESET == <<"passwordreset">>
UNASSOCIATED == <<"unassociated">>

\* s.indexOf(d) !== -1
HasTok(s, d) == \E i \in 1..Len(s) : s[i] = d

\* Index of the first occurrence of d in s (0 when there is none).
RECURSIVE FirstTok(_, _, _)
FirstTok(s, d, i) ==
    IF i > Len(s) THEN 0
    ELSE IF s[i] = d THEN i
    ELSE FirstTok(s, d, i + 1)

\* s.split(d) : the pieces between the occurrences of d; ''.split(d) is [''].
RECURSIVE Split(_, _)
Split(s, d) ==
    LET i == FirstTok(s, d, 1) IN
    IF i = 0 THEN <<s>>
    ELSE <<SubSeq(s, 1, i - 1)>> \o Split(SubSeq(s, i + 1, Len(s)), d)

\* list.join(d)
RECURSIVE Join(_, _)
Join(list, d) ==
    IF Len(list) = 0 THEN EMPTY
    ELSE IF Len(list) = 1 THEN list[1]
    ELSE list[1] \o <<d>> \o Join(Tail(list), d)

\* common.fmtLog builds the text of a log line for console.log / console.error:
\* the caller goes on with its state as it was.
fmtLog(state) == state

\* The entries of a pipe-delimited sequence stack.
Entries(stack) == Split(stack, "|")
LastEntry(stack) == Entries(stack)[Len(Entries(stack))]

----------------------------------------------------------------------------
\* DialogContext.pushSequence / popSequence on the session parameters.

\* The lifespan a context is written with, kept with the session parameters
\* under the key 'lifespan'.
DEF_CTX_LIFESPAN == 99

\* context.lifespan = newLifespan; agent.context.set(context)
updateDialogflowEsContext(context) == [context EXCEPT !.lifespan = DEF_CTX_LIFESPAN]

PushSequenceAppendsOnIdle(p, name) ==
    [p EXCEPT !.sequenceCurrent = name,
              !.sequenceStack = p.sequenceStack \o PIPE \o name]

PushSequenceMarksSkill(p, name) ==
    LET p1 == [p EXCEPT !.sequenceCurrent = name, !.triggeredSkill = "1"] IN
    IF p1.sequenceStack = CTX_WELCOME \/ p1.sequenceStack = EMPTY
    THEN updateDialogflowEsContext(
             [p1 EXCEPT !.sequenceStack =
                 IF name = CTX_RFC THEN name ELSE CTX_RFC \o PIPE \o name])
    ELSE updateDialogflowEsContext(
             [p1 EXCEPT !.sequenceStack = p1.sequenceStack \o PIPE \o name])

pushSequence(p, name) ==
    LET p1 == [p EXCEPT !.sequenceCurrent = name] IN
    IF p1.sequenceStack = CTX_WELCOME \/ p1.sequenceStack = EMPTY
    THEN LET p2 == [p1 EXCEPT !.sequenceStack =
                        IF name = CTX_RFC THEN name ELSE CTX_RFC \o PIPE \o name]
         IN updateDialogflowEsContext(
                IF name # CTX_RFC THEN [p2 EXCEPT !.triggeredSkill = "1"] ELSE p2)
    ELSE updateDialogflowEsContext(
             [p1 EXCEPT !.sequenceStack = p1.sequenceStack \o PIPE \o name])

\* The integrity check of popSequence: true when the warning is logged.
popMismatch(p, name) ==
    /\ HasTok(p.sequenceStack, "|")
    /\ LastEntry(p.sequenceStack) # name

PopSequenceSkipsOnMismatch(p, name) ==
    IF ~HasTok(p.sequenceStack, "|")
    THEN [p EXCEPT !.sequenceCurrent = CTX_RFC, !.sequenceStack = CTX_RFC]
    ELSE IF LastEntry(p.sequenceStack) # name THEN p
    ELSE LET st == Entries(p.sequenceStack)
             new == SubSeq(st, 1, Len(st) - 1)
         IN [p EXCEPT !.sequenceCurrent = new[Len(new)], !.sequenceStack = Join(new, "|")]

PopSequenceKeepsSingle(p, name) ==
    IF ~HasTok(p.sequenceStack, "|")
    THEN [p EXCEPT !.sequenceCurrent = p.sequenceStack]
    ELSE LET st == Entries(p.sequenceStack)
             new == SubSeq(st, 1, Len(st) - 1)
         IN [p EXCEPT !.sequenceCurrent = new[Len(new)], !.sequenceStack = Join(new, "|")]

PopSequenceRestoresWelcome(p, name) ==
    IF ~HasTok(p.sequenceStack, "|")
    THEN [p EXCEPT !.sequenceCurrent = CTX_WELCOME, !.sequenceStack = CTX_WELCOME]
    ELSE LET st == Entries(p.sequenceStack)
             new == SubSeq(st, 1, Len(st) - 1)
         IN [p EXCEPT !.sequenceCurrent = new[Len(new)], !.sequenceStack = Join(new, "|")]

PopSequenceStaleCurrent(p, name) ==
    IF ~HasTok(p.sequenceStack, "|")
    THEN [p EXCEPT !.sequenceCurrent = CTX_RFC, !.sequenceStack = CTX_RFC]
    ELSE LET st == Entries(p.sequenceStack)
             new == SubSeq(st, 1, Len(st) - 1)
         IN [p EXCEPT !.sequenceCurrent = st[Len(st)], !.sequenceStack = Join(new, "|")]

popSequence(p, name) ==
    IF ~HasTok(p.sequenceStack, "|")
    THEN updateDialogflowEsContext(
             [p EXCEPT !.sequenceCurrent = CTX_RFC,
                       !.sequenceStack = IF name = CTX_RFC THEN name ELSE CTX_RFC])
    ELSE LET sequenceStack == Entries(p.sequenceStack)
             p1 == IF popMismatch(p, name) THEN fmtLog(p) ELSE p
             newSequenceStack == SubSeq(sequenceStack, 1, Len(sequenceStack) - 1)
             newSequence == newSequenceStack[Len(newSequenceStack)]
         IN updateDialogflowEsContext(
                [p1 EXCEPT !.sequenceCurrent = newSequence,
                           !.sequenceStack = Join(newSequenceStack, "|")])

----------------------------------------------------------------------------
\* The host transport and the session context.

NoSession == [absent |-> TRUE]   \* agent.context.get('sessionprops') is undefined
NOCTX == <<"{}">>            \* the empty object used when an action has no context
DEFAULT == <<"|">>           \* the default argument of the text setters
AGENT_OBJ == "[object dialogflowAgent]"
NoText == << >>
HandlerText == <<"handler text">>
DefaultTexts == {<<"default response">>}
SESSION_OBJ == <<"[object sessionParams]">>

\* The parameters createEsSessionProps writes (the counters and goodbye flags,
\* which the orchestrator never reads, are left out), with the fields the
\* authentication gate reads as the integrator's base parameters give them.
createEsSessionProps ==
    [ lifespan             |-> DEF_CTX_LIFESPAN,
      sessionInitialized   |-> "0",
      responseAlreadySet   |-> "0",
      sequenceCurrent      |-> CTX_WELCOME,
      sequenceStack        |-> CTX_WELCOME,
      lastEvent            |-> "",
      lastAction           |-> EMPTY,
      lastFulfillmentText  |-> NoText,
      triggeredSkill       |-> "0",
      customerIdentified   |-> "1",
      customerValidated    |-> "0",
      offeredAgent         |-> "0",
      offeredAgentAccepted |-> "0",
      offeredAgentDeclined |-> "0" ]

BlankTurn ==
    [ action   |-> EMPTY,     \* agent.action
      dflt     |-> NoText,    \* agent.consoleMessages[0].text
      seq0     |-> EMPTY,     \* dialogContext.currentSequence, fetched at the start
      lastAction |-> EMPTY,   \* the session's lastAction when the turn resolves its intent
      context  |-> NOCTX,     \* dialogContext.currentContext (a context name)
      branch   |-> "none",    \* standalone | composite | templated | fallback
      key      |-> EMPTY,     \* the action key the turn resolved to
      handlers |-> << >>,     \* the intent handlers run, in order
      handlerContext |-> NOCTX, \* currentContext when the handler was called
      navs     |-> << >>,     \* navigate calls, in order, each with its caller
      navAuth  |-> << >>,     \* for each navigate call: the sequence required
                              \* authentication and the caller still lacked it
      out      |-> << >>,     \* agent.add calls
      events   |-> << >>,     \* agent.setFollowupEvent calls
      hooks    |-> << >>,     \* the bootstrap hooks awaited, in order
      gate     |-> FALSE,     \* handleRequireAuthentication was entered
      thrown   |-> FALSE,     \* an exception reached intentHandler's catch
      done     |-> FALSE ]    \* the request has returned

NoOp == [op |-> "none", name |-> EMPTY, before |-> NoSession]

\* No context is looked at as an object.
NoHeap == [store |-> << >>, objects |-> << >>]

\* One session is served at a time.
NoRequests == << >>

\* The world a request works on: session parameters, host contexts, turn record.
World(p, c, t) == [p |-> p, c |-> c, t |-> t]

Throw(w) == [w EXCEPT !.t.thrown = TRUE]

\* DialogContext.setParam on the session context.
setSessionParam(w, paramName, paramValue) ==
    [w EXCEPT !.p = updateDialogflowEsContext([@ EXCEPT ![paramName] = paramValue])]

setFulfillmentText(w, fulfillmentText) ==
    [w EXCEPT !.p = updateDialogflowEsContext(
        [@ EXCEPT !.lastFulfillmentText =
            IF fulfillmentText # DEFAULT THEN fulfillmentText ELSE w.t.dflt])]

respondWithText(w, fulfillmentText) ==
    [w EXCEPT !.t.out = Append(@,
        IF fulfillmentText # DEFAULT THEN fulfillmentText ELSE w.p.lastFulfillmentText)]

respondWithEvent(w, eventName, fulfillmentText) ==
    LET w1 == respondWithText(w, fulfillmentText)
        w2 == setSessionParam(w1, "lastEvent", eventName)
    IN [w2 EXCEPT !.t.events = Append(@, eventName)]

\* What isAuthRequired would return, without fetching the authentication
\* context: a context not in the store yet would be created with the
\* parameters of its sequence.
authRequiredNow(w) ==
    \/ w.p.customerIdentified = "0"
    \/ w.p.customerValidated = "0"
    \/ (IF CTX_AUTH \in DOMAIN w.c THEN w.c[CTX_AUTH].validationStatus
        ELSE IF CTX_AUTH \in DOMAIN sequences
        THEN sequences[CTX_AUTH].params.validationStatus
        ELSE UNDEF) # "1"

\* Sequence.navigate, called by `by`.  The body of a registered sequence is the
\* integrator's: it returns or throws; the built-in 'unassociated' sequence
\* answers with the default text.
Navigate(w, name, by) ==
    LET w1 == [w EXCEPT !.t.navs = Append(@, [seq |-> name, by |-> by]),
                        !.t.navAuth = Append(@, /\ name \in DOMAIN sequences
                                                /\ sequences[name].authRequired = TRUE
                                                /\ authRequiredNow(w))] IN
    IF name = UNASSOCIATED
    THEN respondWithText(setFulfillmentText(w1, DEFAULT), DEFAULT)
    ELSE IF sequences[name].navigate = "throws" THEN Throw(w1)
    ELSE w1

\* ContextManager.getOrCreateCtx: reading sequence.name of an unregistered
\* sequence is a TypeError.
getOrCreateCtx(w, name) ==
    IF name \in DOMAIN w.c THEN w
    ELSE IF name \notin DOMAIN sequences THEN Throw(w)
    ELSE [w EXCEPT !.c = (name :> sequences[name].params) @@ w.c]

\* The value isAuthRequired returns once the authentication context is fetched.
isAuthRequired(w) ==
    \/ w.p.customerIdentified = "0"
    \/ w.p.customerValidated = "0"
    \/ w.c[CTX_AUTH].validationStatus # "1"

popSequenceAndNavigate(w, name, by) ==
    LET w1 == [w EXCEPT !.p = popSequence(w.p, name)] IN
    IF w1.p.sequenceCurrent \notin DOMAIN sequences THEN Throw(w1)
    ELSE Navigate(fmtLog(w1), w1.p.sequenceCurrent, by)

resetOfferedAgentFlags(w) ==
    [w EXCEPT !.p = updateDialogflowEsContext(
        [@ EXCEPT !.offeredAgent = "0",
                  !.offeredAgentAccepted = "0",
                  !.offeredAgentDeclined = "0"])]

\* Reading sequence.activity: Sequence stores _activity and defines the getter
\* 'ativity', so the property 'activity' has no getter and reads as undefined.
activity(sequence) == UNDEF

apology(text) == <<"I'm sorry, but ", text, " isn't something I can do without validating your identity.">>

PushAuthenticationNavigatesTarget(w) ==
    LET w1 == [w EXCEPT !.p = pushSequence(w.p, CTX_AUTH)] IN
    IF CTX_AUTH \notin DOMAIN sequences THEN Throw(w1)
    ELSE Navigate(w1, w.p.sequenceCurrent, "gate")

\* The tail of handleRequireAuthentication: push the authentication sequence and navigate it.
pushAuthentication(w) ==
    LET w1 == [w EXCEPT !.p = pushSequence(w.p, CTX_AUTH)] IN
    IF CTX_AUTH \notin DOMAIN sequences THEN Throw(w1)
    ELSE Navigate(w1, CTX_AUTH, "gate")

HandleRequireAuthenticationKeepsFlags(w0) ==
    LET wg == getOrCreateCtx([w0 EXCEPT !.t.gate = TRUE], CTX_AUTH)
        sequenceCurrent == wg.p.sequenceCurrent
        validationStatus == wg.c[CTX_AUTH].validationStatus
        w == IF validationStatus = "1"
             THEN Navigate(setSessionParam(wg, "customerValidated", "1"),
                           sequenceCurrent, "gate")
             ELSE wg
    IN IF wg.t.thrown THEN wg
       ELSE IF w.t.thrown THEN w
       ELSE IF validationStatus = "2" /\ w.p.offeredAgent = "0"
       THEN respondWithEvent(
                setSessionParam(w, "lastFulfillmentText",
                                apology(activity(sequences[sequenceCurrent]))),
                AGENT_OBJ, SESSION_OBJ)
       ELSE IF validationStatus = "2" /\ w.p.offeredAgentAccepted = "1"
       THEN respondWithEvent(w, AGENT_OBJ, SESSION_OBJ)
       ELSE IF validationStatus = "2" /\ w.p.offeredAgentDeclined = "1"
       THEN popSequenceAndNavigate(w, CTX_PWRESET, "gate")
       ELSE pushAuthentication(w)

handleRequireAuthentication(w0) ==
    LET wg == getOrCreateCtx([w0 EXCEPT !.t.gate = TRUE], CTX_AUTH)
        sequenceCurrent == wg.p.sequenceCurrent
        validationStatus == wg.c[CTX_AUTH].validationStatus
        w == IF validationStatus = "1"
             THEN Navigate(setSessionParam(wg, "customerValidated", "1"),
                           sequenceCurrent, "gate")
             ELSE wg
    IN IF wg.t.thrown THEN wg
       ELSE IF w.t.thrown THEN w
       ELSE IF validationStatus = "2" /\ w.p.offeredAgent = "0"
       THEN respondWithEvent(
                setSessionParam(w, "lastFulfillmentText",
                                apology(activity(sequences[sequenceCurrent]))),
                AGENT_OBJ, SESSION_OBJ)
       ELSE IF validationStatus = "2" /\ w.p.offeredAgentAccepted = "1"
       THEN respondWithEvent(w, AGENT_OBJ, SESSION_OBJ)
       ELSE IF validationStatus = "2" /\ w.p.offeredAgentDeclined = "1"
       THEN popSequenceAndNavigate(resetOfferedAgentFlags(w), CTX_PWRESET, "gate")
       ELSE pushAuthentication(w)

----------------------------------------------------------------------------
\* DialogFlowEsClient.handleIntentAndNavigate after the awaited handler.

AfterHandlerNavigatesOnWait(w0, intentAction) ==
    LET w == w0 IN
    LET intent == intents[intentAction] IN
    IF w.p.responseAlreadySet = "1"
    THEN IF intent.waitForReply
         THEN setSessionParam(w, "lastAction", intentAction)
         ELSE w
    ELSE IF w.p.sequenceCurrent \notin DOMAIN sequences THEN Throw(w)
    ELSE Navigate(IF intent.waitForReply
                  THEN setSessionParam(w, "lastAction", intentAction) ELSE w,
                  w.p.sequenceCurrent, "orchestrator")

AfterHandlerGatesBeforeWait(w0, intentAction) ==
    LET w == w0
        intent == intents[intentAction]
        sequenceUpdated == w.p.sequenceCurrent
        w1 == getOrCreateCtx(w, CTX_AUTH)
    IN IF w.p.responseAlreadySet = "1"
       THEN IF intent.waitForReply
            THEN setSessionParam(w, "lastAction", intentAction)
            ELSE w
       ELSE IF /\ sequenceUpdated \in DOMAIN sequences
               /\ sequences[sequenceUpdated].authRequired
               /\ ~w1.t.thrown
               /\ isAuthRequired(w1)
       THEN handleRequireAuthentication(w1)
       ELSE IF intent.waitForReply
       THEN respondWithText(setSessionParam(w, "lastAction", intentAction),
                            w.p.lastFulfillmentText)
       ELSE IF sequenceUpdated \notin DOMAIN sequences
       THEN Throw(w)
       ELSE Navigate(w, sequenceUpdated, "orchestrator")

AfterHandlerIgnoresResponseFlag(w0, intentAction) ==
    LET w == w0
        intent == intents[intentAction]
        sequenceUpdated == w.p.sequenceCurrent
    IN IF intent.waitForReply
       THEN respondWithText(setSessionParam(w, "lastAction", intentAction),
                            w.p.lastFulfillmentText)
       ELSE IF sequenceUpdated \notin DOMAIN sequences
       THEN Throw(w)
       ELSE IF sequences[sequenceUpdated].authRequired
       THEN LET w1 == getOrCreateCtx(w, CTX_AUTH) IN
            IF w1.t.thrown THEN w1
            ELSE IF isAuthRequired(w1) THEN handleRequireAuthentication(w1)
            ELSE Navigate(w1, sequenceUpdated, "orchestrator")
       ELSE Navigate(w, sequenceUpdated, "orchestrator")

AfterHandlerNavigatesStart(w0, intentAction) ==
    LET w == w0
        intent == intents[intentAction]
        sequenceUpdated == w.p.sequenceCurrent
    IN IF w.p.responseAlreadySet = "1"
       THEN IF intent.waitForReply
            THEN setSessionParam(w, "lastAction", intentAction)
            ELSE w
       ELSE IF intent.waitForReply
       THEN respondWithText(setSessionParam(w, "lastAction", intentAction),
                            w.p.lastFulfillmentText)
       ELSE IF sequenceUpdated \notin DOMAIN sequences
       THEN Throw(w)
       ELSE IF sequences[sequenceUpdated].authRequired
       THEN LET w1 == getOrCreateCtx(w, CTX_AUTH) IN
            IF w1.t.thrown THEN w1
            ELSE IF isAuthRequired(w1) THEN handleRequireAuthentication(w1)
            ELSE Navigate(w1, w.t.seq0, "orchestrator")
       ELSE Navigate(w, w.t.seq0, "orchestrator")

afterHandler(w0, intentAction) ==
    LET w == fmtLog(w0)
        intent == intents[intentAction]
        sequenceUpdated == w.p.sequenceCurrent
    IN IF w.p.responseAlreadySet = "1"
       THEN IF intent.waitForReply
            THEN setSessionParam(w, "lastAction", intentAction)
            ELSE w
       ELSE IF intent.waitForReply
       THEN respondWithText(setSessionParam(w, "lastAction", intentAction),
                            w.p.lastFulfillmentText)
       ELSE IF sequenceUpdated \notin DOMAIN sequences
       THEN Throw(w)     \* sequenceUpdated is undefined: reading authRequired throws
       ELSE IF sequences[sequenceUpdated].authRequired
       THEN LET w1 == getOrCreateCtx(w, CTX_AUTH) IN
            IF w1.t.thrown THEN w1
            ELSE IF isAuthRequired(w1) THEN handleRequireAuthentication(w1)
            ELSE Navigate(w1, sequenceUpdated, "orchestrator")
       ELSE Navigate(w, sequenceUpdated, "orchestrator")

EndRequestKeepsFlag(w) ==
    [w EXCEPT !.t.done = TRUE]

EndRequestResetsOnThrow(w) ==
    [w EXCEPT !.p.responseAlreadySet = "0", !.t.done = TRUE]

\* The end of a request that did not throw: reset responseAlreadySet and persist.
endRequest(w) ==
    IF w.t.thrown THEN [w EXCEPT !.t.done = TRUE]
    ELSE [w EXCEPT !.p.responseAlreadySet = "0", !.t.done = TRUE]

----------------------------------------------------------------------------
\* Intent resolution (intentHandler).

\* lastAction + '.' + agent.action
compositeIntentName(lastAction, action) == lastAction \o DOT \o action

\* action.split('.').pop()
LastEntryOf(action) == Split(action, ".")[Len(Split(action, "."))]

\* The substring after the final '.', or the action itself.
actiontemplateTail(action) ==
    IF HasTok(action, ".") THEN LastEntryOf(action) ELSE action

ResolveCompositeFirst(lastAction, action) ==
    IF compositeIntentName(lastAction, action) \in DOMAIN intents
    THEN [branch |-> "composite", key |-> compositeIntentName(lastAction, action)]
    ELSE IF action \in DOMAIN intents
    THEN [branch |-> "standalone", key |-> action]
    ELSE IF actiontemplateTail(action) \in DOMAIN intents
    THEN [branch |-> "templated", key |-> actiontemplateTail(action)]
    ELSE [branch |-> "fallback", key |-> EMPTY]

ResolveHeadTemplate(lastAction, action) ==
    IF action \in DOMAIN intents
    THEN [branch |-> "standalone", key |-> action]
    ELSE IF compositeIntentName(lastAction, action) \in DOMAIN intents
    THEN [branch |-> "composite", key |-> compositeIntentName(lastAction, action)]
    ELSE IF Split(action, ".")[1] \in DOMAIN intents
    THEN [branch |-> "templated", key |-> Split(action, ".")[1]]
    ELSE [branch |-> "fallback", key |-> EMPTY]

\* The branch of the priority chain and the key it resolves to.
Resolve(lastAction, action) ==
    IF action \in DOMAIN intents
    THEN [branch |-> "standalone", key |-> action]
    ELSE IF compositeIntentName(lastAction, action) \in DOMAIN intents
    THEN [branch |-> "composite", key |-> compositeIntentName(lastAction, action)]
    ELSE IF actiontemplateTail(action) \in DOMAIN intents
    THEN [branch |-> "templated", key |-> actiontemplateTail(action)]
    ELSE [branch |-> "fallback", key |-> EMPTY]

FetchContextKeepsActive(w, action) ==
    IF action \in DOMAIN intentContexts
    THEN getOrCreateCtx(w, intentContexts[action])
    ELSE w

\* The context fetched for an action: its sequence's context, or the empty object.
fetchContext(w, action) ==
    IF action \in DOMAIN intentContexts
    THEN LET w1 == getOrCreateCtx(w, intentContexts[action]) IN
         IF w1.t.thrown THEN w1 ELSE [w1 EXCEPT !.t.context = intentContexts[action]]
    ELSE [w EXCEPT !.t.context = NOCTX]

\* The bootstrap hooks: the client's payload hook and lookup hook; a
\* connector's payload hook is named by the connector.
BASE_HOOK == "populateFromEsPayload"
LOOKUP_HOOK == "populateFromLookup"
NO_HOOK == "none"

\* What a request carries for the hooks: the interaction source and the
\* identification flag the payload hook copies into the session, and the hook
\* that throws on it (if any).
Payload(source, identified, throwsAt) ==
    [source |-> source, identified |-> identified, throwsAt |-> throwsAt]

\* obj[key] = value on a parameters object, the key being new or not.
setKey(obj, key, value) == (key :> value) @@ obj

AssignKeepsExisting(target, paramSet) == target @@ paramSet

\* for (param in paramSet) target[param] = paramSet[param]
assign(target, paramSet) == paramSet @@ target

\* The loop of getOrCreateEsSessionProps over getSets(), in array order.
RECURSIVE mergeSets(_, _)
mergeSets(parameters, paramSets) ==
    IF paramSets = << >> THEN parameters
    ELSE mergeSets(assign(parameters, Head(paramSets)), Tail(paramSets))

\* How many turns of age the host counts on a stored context.
MaxAge == 1

\* agent.context.get on a later turn: the host hands the stored context back
\* with one turn less to live.
agedByHost(stored) ==
    IF stored = NoSession THEN stored
    ELSE [stored EXCEPT !.lifespan =
             IF @ > DEF_CTX_LIFESPAN - MaxAge THEN @ - 1 ELSE @]

\* The session context of the request: the stored one, or a new one with the
\* registered default parameter sets merged in.
getOrCreateEsSessionProps(stored) ==
    IF stored = NoSession
    THEN mergeSets(createEsSessionProps, connectors.parameterSets)
    ELSE stored

\* What a hook does to the session context it is given: it populates it, which
\* leaves its name at the end of the context's trail of hooks.
populatedBy(parameters, hook) ==
    setKey(parameters, "populatedBy",
           Append(IF "populatedBy" \in DOMAIN parameters
                  THEN parameters.populatedBy ELSE << >>, hook))

\* One bootstrap hook is awaited: it is recorded, and it returns the session
\* context it was given, populated, or throws.  The client's payload hook
\* copies the payload into the context.
callHook(w, hook, payload) ==
    LET w1 == [w EXCEPT !.t.hooks = Append(@, hook)] IN
    IF hook = UNDEF \/ payload.throwsAt = hook THEN Throw(w1)
    ELSE IF hook = BASE_HOOK
    THEN [w1 EXCEPT !.p = setKey(setKey(populatedBy(@, hook),
                                        "interactionSource", payload.source),
                                 "customerIdentified", payload.identified)]
    ELSE [w1 EXCEPT !.p = populatedBy(@, hook)]

RECURSIVE CallPayloadHandlersReversed(_, _, _)
CallPayloadHandlersReversed(w, payloadHandlers, payload) ==
    IF payloadHandlers = << >> \/ w.t.thrown THEN w
    ELSE LET w1 == CallPayloadHandlersReversed(w, Tail(payloadHandlers), payload) IN
         IF w1.t.thrown THEN w1 ELSE callHook(w1, Head(payloadHandlers), payload)

\* The loop over getPayloadHandlers(), in array order.
RECURSIVE callPayloadHandlers(_, _, _)
callPayloadHandlers(w, payloadHandlers, payload) ==
    IF payloadHandlers = << >> \/ w.t.thrown THEN w
    ELSE callPayloadHandlers(callHook(w, Head(payloadHandlers), payload),
                             Tail(payloadHandlers), payload)

\* Session bootstrap: the hooks run while sessionInitialized is '0', and the
\* flag is set once all of them have returned.
bootstrap(w, payload) ==
    IF w.p.sessionInitialized # "0" THEN w
    ELSE LET w1 == callHook(w, BASE_HOOK, payload)
             w2 == IF w1.t.thrown THEN w1
                   ELSE callPayloadHandlers(w1, connectors.payloadHandlers, payload)
             w3 == IF w2.t.thrown THEN w2
                   ELSE IF w2.p.customerIdentified = "0" \/ w2.p.interactionSource = "phone"
                   THEN callHook(w2, LOOKUP_HOOK, payload)
                   ELSE w2
         IN IF w3.t.thrown THEN w3
            ELSE [w3 EXCEPT !.p.sessionInitialized = "1"]

FallbackClearsLastAction(w) ==
    endRequest(Navigate(setFulfillmentText(
                            fmtLog([w EXCEPT !.p.lastAction = EMPTY]), DEFAULT),
                        w.t.seq0, "fallback"))

\* The no-handler fallback.
fallbackBeforeSet(w) ==
    endRequest(Navigate(w, w.t.seq0, "fallback"))

fallback(w) ==
    endRequest(Navigate(setFulfillmentText(fmtLog(w), DEFAULT), w.t.seq0, "fallback"))

\* intentHandler up to the awaited handler call (or to its return when no
\* handler is found or an exception is caught).
startRequest(p0, c0, action, dflt, payload) ==
    LET seq0 == IF p0.sequenceCurrent \in DOMAIN sequences
                THEN p0.sequenceCurrent ELSE UNASSOCIATED
        t0 == [BlankTurn EXCEPT !.action = action, !.dflt = dflt, !.seq0 = seq0]
        w1 == fetchContext(World(p0, c0, t0), action)
        b  == IF w1.t.thrown THEN w1 ELSE bootstrap(w1, payload)
        w2 == IF b.t.thrown THEN b ELSE fmtLog(b)
        r  == Resolve(w2.p.lastAction, action)
        w3 == IF w2.t.thrown \/ r.branch = "standalone" THEN w2
              ELSE fetchContext([w2 EXCEPT !.t.lastAction = w2.p.lastAction],
                                w2.p.lastAction)
    IN IF w3.t.thrown THEN endRequest(w3)
       ELSE IF r.branch = "fallback" THEN fallback([w3 EXCEPT !.t.branch = "fallback"])
       ELSE [w3 EXCEPT !.t.branch = r.branch, !.t.key = r.key,
                       !.t.handlers = Append(@, r.key),
                       !.t.handlerContext = w3.t.context]

----------------------------------------------------------------------------
\* Registered configurations.

Sequence(authRequired, description, validationStatus) ==
    [authRequired |-> authRequired, _activity |-> description,
     params |-> [validationStatus |-> validationStatus], navigate |-> "returns"]

Intent(sequenceName, waitForReply) ==
    [sequenceName |-> sequenceName, waitForReply |-> waitForReply]

\* initializeSequenceManager: the built-in sequence.
initializeSequenceManager ==
    UNASSOCIATED :> Sequence(FALSE, "what we were doing", UNDEF)

Skills(authOfAuthentication) ==
    (CTX_RFC :> Sequence(FALSE, "finding out why you called", UNDEF))
    @@ (CTX_AUTH :> Sequence(authOfAuthentication, "validating your identity", "0"))
    @@ (CTX_PWRESET :> Sequence(TRUE, "resetting your password", UNDEF))

\* The sequence registries the turns are checked under: one without a
\* registered 'welcome' sequence, and one whose authentication sequence itself
\* requires authentication.
SequenceConfigs ==
    { initializeSequenceManager @@ Skills(FALSE),
      initializeSequenceManager @@ Skills(TRUE)
          @@ (CTX_WELCOME :> Sequence(FALSE, "greeting each other", UNDEF)) }

ASK == <<"ask">>
YES == <<"yes">>
NO == <<"no">>
LEAF == <<"leaf">>
ASK_YES == <<"ask", ".", "yes">>
ASK_NO == <<"ask", ".", "no">>
GRP_LEAF == <<"grp", ".", "leaf">>
ASK_GRP_LEAF == <<"ask", ".", "grp", ".", "leaf">>
UNKNOWN == <<"unknown">>

\* The intent registry the turns are checked under.  'ask' asks a question
\* and waits; 'yes' is only registered as the reply 'ask.yes'; 'no' is
\* registered both alone and as the reply 'ask.no'; 'leaf' is a template tail,
\* and 'ask.grp.leaf' a reply whose detected action also has that tail.
IntentConfigs ==
    { (ASK :> Intent(CTX_PWRESET, TRUE))
      @@ (ASK_YES :> Intent(CTX_RFC, TRUE))
      @@ (NO :> Intent(CTX_PWRESET, FALSE))
      @@ (ASK_NO :> Intent(CTX_PWRESET, FALSE))
      @@ (LEAF :> Intent(CTX_PWRESET, TRUE))
      @@ (ASK_GRP_LEAF :> Intent(CTX_PWRESET, FALSE)) }

\* The actions the host detects.
Actions == {ASK, YES, NO, GRP_LEAF, UNKNOWN}

----------------------------------------------------------------------------
\* Constructors and registration calls.

\* A JavaScript object handed to a constructor or to a registration call is a
\* record whose field `has` holds the names of its properties that are not
\* undefined; the other fields are the values of the properties the model reads.
Has(obj, property) == property \in obj.has

NoName == <<"undefined">>    \* the Map key of a sequence or intent without name / action
NoParams == << >>            \* a parameter set that is {} or undefined: no own property

\* The outcome of a call: the registry after it, and whether it threw.
Returned(registry) == [registry |-> registry, threw |-> FALSE]
Thrown(registry) == [registry |-> registry, threw |-> TRUE]

\* The outcome of a constructor: the object built, or an exception.
Built(object) == [object |-> object, threw |-> FALSE]
NotBuilt(given) == [object |-> given, threw |-> TRUE]

SequenceRequired ==
    {"name", "activity", "authRequired", "params", "createCase", "navigate", "breakIntents"}
IntentRequired == {"action", "handler"}
ConnectorRequired == {"name", "endpoint", "params"}
IntentsRequired == {"actions", "sequenceName", "handler"}

\* new Sequence(params)
newSequence(given) ==
    IF SequenceRequired \subseteq given.has THEN Built(given) ELSE NotBuilt(given)

\* new Intent(params): sequenceName defaults to 'unassociated', waitForReply to false.
newIntent(given) ==
    IF ~(IntentRequired \subseteq given.has) THEN NotBuilt(given)
    ELSE Built([given EXCEPT
                  !.has = @ \cup {"sequenceName", "waitForReply"},
                  !.sequenceName = IF Has(given, "sequenceName") THEN @ ELSE UNASSOCIATED,
                  !.waitForReply = IF Has(given, "waitForReply") THEN @ ELSE FALSE])

\* new Connector(params): sessionParams defaults to {}, populateFromPayload to
\* a function returning the context it is given.
newConnector(given) ==
    IF ~(ConnectorRequired \subseteq given.has) THEN NotBuilt(given)
    ELSE Built([given EXCEPT
                  !.has = @ \cup {"sessionParams", "populateFromPayload"},
                  !.sessionParams = IF Has(given, "sessionParams") THEN @ ELSE NoParams,
                  !.populateFromPayload =
                      IF Has(given, "populateFromPayload") THEN @ ELSE given.name])

\* sequence.name, intent.action and connector.name as Map keys.
sequenceName(sequence) == IF Has(sequence, "name") THEN sequence.name ELSE NoName
intentAction(intent) == IF Has(intent, "action") THEN intent.action ELSE NoName
connectorName(connector) == IF Has(connector, "name") THEN connector.name ELSE UNDEF

RegisterSequenceOverwrites(registry, sequence) ==
    Returned((sequenceName(sequence) :> sequence) @@ registry)

\* SequenceManager.registerSequence
registerSequence(registry, sequence) ==
    IF sequenceName(sequence) \in DOMAIN registry THEN Thrown(registry)
    ELSE Returned((sequenceName(sequence) :> sequence) @@ registry)

\* IntentManager: the intents and the name of the sequence of each.
IntentManager(intentMap, contextMap) == [intents |-> intentMap, intentContexts |-> contextMap]

\* IntentManager.registerIntent
registerIntent(manager, intent) ==
    LET action == intentAction(intent)
        context == IF Has(intent, "sequenceName") THEN intent.sequenceName ELSE NoName
    IN IF action \in DOMAIN manager.intents THEN Thrown(manager)
       ELSE Returned(IntentManager((action :> intent) @@ manager.intents,
                                   (action :> context) @@ manager.intentContexts))

\* The loop of registerIntents over params.actions: it stops at the first
\* registerIntent that throws.
RECURSIVE registerEach(_, _, _)
registerEach(manager, actions, given) ==
    IF actions = << >> THEN Returned(manager)
    ELSE LET r == registerIntent(manager,
                      [has |-> {"action", "sequenceName", "handler"}
                                 \cup (given.has \cap {"waitForReply"}),
                       action |-> Head(actions),
                       sequenceName |-> given.sequenceName,
                       waitForReply |-> given.waitForReply,
                       handler |-> given.handler])
         IN IF r.threw THEN r ELSE registerEach(r.registry, Tail(actions), given)

\* IntentManager.registerIntents
registerIntents(manager, given) ==
    IF ~(IntentsRequired \subseteq given.has) THEN Thrown(manager)
    ELSE registerEach(manager, given.actions, given)

\* new ConnectorManager({defaultParameterManager: new DefaultParameterManager()})
NewConnectorManager ==
    [ connectors        |-> << >>,    \* ConnectorManager._connectors
      parameterMap      |-> << >>,    \* DefaultParameterManager._parameterMap
      parameterSets     |-> << >>,    \* DefaultParameterManager._parameterSets
      payloadHandlerMap |-> << >>,    \* DefaultParameterManager._populateFromPayloadHandlerMap
      payloadHandlers   |-> << >> ]   \* DefaultParameterManager._populateFromPayloadHandlers

\* DefaultParameterManager.registerSessionParameters
registerSessionParameters(manager, name, paramSet) ==
    IF name \in DOMAIN manager.parameterMap THEN Thrown(manager)
    ELSE Returned([manager EXCEPT !.parameterMap = (name :> paramSet) @@ @,
                                  !.parameterSets = Append(@, paramSet)])

\* DefaultParameterManager.registerPayloadHandler
registerPayloadHandler(manager, name, handler) ==
    IF name \in DOMAIN manager.payloadHandlerMap THEN Thrown(manager)
    ELSE Returned([manager EXCEPT !.payloadHandlerMap = (name :> handler) @@ @,
                                  !.payloadHandlers = Append(@, handler)])

\* ConnectorManager.registerConnector
registerConnector(manager, connector) ==
    LET name == connectorName(connector)
        sessionParams ==
            IF Has(connector, "sessionParams") THEN connector.sessionParams ELSE NoParams
        populateFromPayload ==
            IF Has(connector, "populateFromPayload")
            THEN connector.populateFromPayload ELSE UNDEF
        r1 == registerSessionParameters(manager, name, sessionParams)
        r2 == registerPayloadHandler(r1.registry, name, populateFromPayload)
    IN IF name \in DOMAIN manager.connectors THEN Thrown(manager)
       ELSE IF r1.threw THEN r1
       ELSE IF r2.threw THEN r2
       ELSE Returned([r2.registry EXCEPT !.connectors = (name :> connector) @@ @])

\* A connector the integrator builds with its own session parameters and
\* payload hook (the hook is named by the connector).
Connector(name, sessionParams) ==
    [has |-> {"name", "endpoint", "params", "sessionParams", "populateFromPayload"},
     name |-> name, sessionParams |-> sessionParams, populateFromPayload |-> name]

CRM == Connector("crm", [region |-> "emea", crmInstance |-> "a"])
TELEPHONY == Connector("telephony", [region |-> "apac"])

\* registerConnector for each connector of a list, in order.
RECURSIVE registerConnectors(_, _)
registerConnectors(manager, list) ==
    IF list = << >> THEN manager
    ELSE registerConnectors(registerConnector(manager, Head(list)).registry, Tail(list))

\* The hooks a session can invoke.
Hooks == {BASE_HOOK, LOOKUP_HOOK, CRM.name, TELEPHONY.name}

\* hookCalls after a turn that awaited the hooks of `awaited`.
countHooks(calls, awaited) ==
    [h \in Hooks |-> calls[h] + Cardinality({i \in 1..Len(awaited) : awaited[i] = h})]

----------------------------------------------------------------------------
\* The turn machine.

\* No session yet, no request in flight.
NoCalls == [h \in Hooks |-> 0]

InitTurns ==
    /\ heap = NoHeap
    /\ requests = NoRequests
    /\ intents \in IntentConfigs
    /\ intentContexts = [a \in DOMAIN intents |-> intents[a].sequenceName]
    /\ params = NoSession
    /\ ctxs = << >>
    /\ pc = "idle"
    /\ turn = BlankTurn
    /\ lastOp = NoOp
    /\ hookCalls = NoCalls

Init ==
    /\ InitTurns
    /\ sequences \in SequenceConfigs
    /\ connectors = registerConnectors(NewConnectorManager, <<CRM, TELEPHONY>>)

Commit(w) ==
    /\ params' = w.p
    /\ ctxs' = w.c
    /\ turn' = w.t

\* The session has completed its bootstrap.
Bootstrapped == params # NoSession /\ params.sessionInitialized # "0"

\* A request arrives: intentHandler runs up to the awaited handler.  A payload
\* on which a hook throws arrives only while the bootstrap is still to be
\* done, and no more than MaxBootFailures times once the payload hook has run.
BeginTurn(action, dflt, payload) ==
    /\ pc = "idle"
    /\ params # NoSession => Len(Entries(params.sequenceStack)) <= MaxStack
    /\ payload.throwsAt # NO_HOOK =>
          /\ ~Bootstrapped
          /\ hookCalls[BASE_HOOK] < MaxBootFailures
    /\ \E w \in {startRequest(getOrCreateEsSessionProps(agedByHost(params)), ctxs,
                                action, dflt, payload)} :
          /\ Commit(w)
          /\ pc' = IF w.t.done THEN "idle" ELSE "handler"
          /\ hookCalls' = countHooks(hookCalls, w.t.hooks)
    /\ lastOp' = NoOp
    /\ UNCHANGED <<requests, heap, sequences, intents, intentContexts, connectors>>

\* One call an intent handler makes on the DialogContext facade.
applyOp(w, op) ==
    IF op.op = "push" THEN [w EXCEPT !.p = pushSequence(w.p, op.name)]
    ELSE IF op.op = "pop" THEN [w EXCEPT !.p = popSequence(w.p, op.name)]
    ELSE IF op.op = "popnav" THEN popSequenceAndNavigate(w, op.name, "handler")
    ELSE IF op.op = "respond"
    THEN setSessionParam(respondWithText(w, HandlerText), "responseAlreadySet", "1")
    ELSE IF op.op = "text" THEN setFulfillmentText(w, HandlerText)
    ELSE IF op.op = "validate"
    THEN LET w1 == getOrCreateCtx(w, CTX_AUTH) IN
         IF w1.t.thrown THEN w1
         ELSE [w1 EXCEPT !.c[CTX_AUTH].validationStatus = Head(op.name)]
    ELSE Throw(w)

\* The body of an intent handler: its facade calls in order, up to a throw.
RECURSIVE runHandler(_, _)
runHandler(w, body) ==
    IF body = << >> \/ w.t.thrown THEN w
    ELSE runHandler(applyOp(w, Head(body)), Tail(body))

Op(op, name) == [op |-> op, name |-> name]

\* The handler bodies the turns are checked with.
HandlerBodies ==
    { << >>,
      <<Op("push", CTX_PWRESET)>>,
      <<Op("pop", CTX_PWRESET)>>,
      <<Op("popnav", CTX_PWRESET)>>,
      <<Op("respond", EMPTY)>>,
      <<Op("text", EMPTY)>>,
      <<Op("validate", <<"1">>)>>,
      <<Op("validate", <<"2">>)>>,
      <<Op("push", CTX_PWRESET), Op("respond", EMPTY)>>,
      <<Op("throw", EMPTY)>> }

Pushes(body) == Cardinality({i \in 1..Len(body) : body[i].op = "push"})

\* The catch of intentHandler around the awaited handler.
endRequestIfThrown(w) == IF w.t.thrown THEN endRequest(w) ELSE w

\* The awaited handler runs; an exception it throws reaches intentHandler's
\* catch and the request ends.
HandlerRuns(body) ==
    /\ pc = "handler"
    /\ Len(Entries(params.sequenceStack)) + Pushes(body) <= MaxStack
    /\ \E w \in {endRequestIfThrown(runHandler(World(params, ctxs, turn), body))} :
          /\ Commit(w)
          /\ pc' = IF w.t.done THEN "idle" ELSE "returned"
    /\ lastOp' = [op |-> "handler", name |-> body, before |-> params]
    /\ UNCHANGED <<requests, heap, sequences, intents, intentContexts, connectors, hookCalls>>

\* The handler's promise has resolved: gating, navigation and the end of the request.
HandlerReturns ==
    /\ pc = "returned"
    /\ Commit(endRequest(afterHandler(World(params, ctxs, turn), turn.key)))
    /\ pc' = "idle"
    /\ lastOp' = NoOp
    /\ UNCHANGED <<requests, heap, sequences, intents, intentContexts, connectors, hookCalls>>

\* The payload of the web channel, on which no hook throws.
ChatPayload == Payload("chat", "1", NO_HOOK)

Next ==
    \/ \E action \in Actions, dflt \in DefaultTexts : BeginTurn(action, dflt, ChatPayload)
    \/ \E body \in HandlerBodies : HandlerRuns(body)
    \/ HandlerReturns

Spec == Init /\ [][Next]_vars

\* Turns in which a bootstrap hook, a handler or a navigate function may throw,
\* under each set of registered connectors.
ConnectorLists == {<< >>, <<CRM>>, <<CRM, TELEPHONY>>, <<TELEPHONY, CRM>>}

\* A registry whose 'reasonforcontact' sequence has a navigate that throws.
FailingSequences ==
    [initializeSequenceManager @@ Skills(FALSE) EXCEPT ![CTX_RFC].navigate = "throws"]

\* The payloads of a telephone call, on which any one hook may throw, and of
\* the web channel, with the customer identified or not.
Payloads ==
    {Payload("phone", "1", hook) : hook \in Hooks \cup {NO_HOOK}}
        \cup {Payload("chat", identified, NO_HOOK) : identified \in {"0", "1"}}

BootActions == {ASK, NO, UNKNOWN}

BootBodies ==
    { << >>,
      <<Op("pop", CTX_PWRESET)>>,
      <<Op("push", CTX_PWRESET), Op("throw", EMPTY)>>,
      <<Op("respond", EMPTY), Op("throw", EMPTY)>> }

InitBoot ==
    /\ InitTurns
    /\ sequences = FailingSequences
    /\ \E list \in ConnectorLists :
          connectors = registerConnectors(NewConnectorManager, list)

NextBoot ==
    \/ \E action \in BootActions, dflt \in DefaultTexts, payload \in Payloads :
          BeginTurn(action, dflt, payload)
    \/ \E body \in BootBodies : HandlerRuns(body)
    \/ HandlerReturns

SpecBoot == InitBoot /\ [][NextBoot]_vars

----------------------------------------------------------------------------
\* The DialogContext facade driven call by call, outside a turn.

StackTokens == {"welcome", "reasonforcontact", "passwordreset", "|"}

\* Every string of at most MaxFacadeStack + 1 tokens: well-formed stacks, the
\* empty string and corrupted stacks.
StackStrings == UNION {[1..n -> StackTokens] : n \in 0..(MaxFacadeStack + 1)}

\* The names the facade is called with ('' included).
StackNames == {CTX_RFC, CTX_AUTH, CTX_PWRESET, EMPTY}

Flags == {"0", "1"}

\* The sequence registries the gate is checked under: in the second one the
\* authentication sequence itself requires authentication.
FacadeSequences ==
    { initializeSequenceManager @@ Skills(FALSE),
      initializeSequenceManager @@ Skills(TRUE) }

InitFacade ==
    /\ heap = NoHeap
    /\ requests = NoRequests
    /\ intents = << >>
    /\ intentContexts = << >>
    /\ connectors = NewConnectorManager
    /\ hookCalls = NoCalls
    /\ ctxs = << >>
    /\ pc = "facade"
    /\ turn = BlankTurn
    /\ lastOp = NoOp

\* A session context holding any stack string.
InitStack ==
    /\ InitFacade
    /\ sequences = initializeSequenceManager @@ Skills(FALSE)
    /\ \E stack \in StackStrings, current \in {CTX_WELCOME}, skill \in Flags :
          params = [createEsSessionProps EXCEPT !.sequenceStack = stack,
                                                !.sequenceCurrent = current,
                                                !.triggeredSkill = skill]

\* A newly created session context.
InitSession ==
    /\ InitFacade
    /\ sequences \in FacadeSequences
    /\ params = createEsSessionProps

Push(name) ==
    /\ pc = "facade"
    /\ Len(Entries(params.sequenceStack)) <= MaxFacadeStack
    /\ Commit(World(pushSequence(params, name), ctxs, BlankTurn))
    /\ lastOp' = [op |-> "push", name |-> name, before |-> params]
    /\ UNCHANGED <<requests, heap, sequences, intents, intentContexts, pc, connectors, hookCalls>>

Pop(name) ==
    /\ pc = "facade"
    /\ Commit(World(popSequence(params, name), ctxs, BlankTurn))
    /\ lastOp' = [op |-> "pop", name |-> name, before |-> params]
    /\ UNCHANGED <<requests, heap, sequences, intents, intentContexts, pc, connectors, hookCalls>>

PopAndNavigate(name) ==
    /\ pc = "facade"
    /\ Commit(popSequenceAndNavigate(World(params, ctxs, BlankTurn), name, "caller"))
    /\ lastOp' = [op |-> "popnav", name |-> name, before |-> params]
    /\ UNCHANGED <<requests, heap, sequences, intents, intentContexts, pc, connectors, hookCalls>>

\* The authentication gate, entered as handleIntentAndNavigate enters it (the
\* current sequence requires authentication), with the validation status and
\* the escalation flags earlier turns may have left.
AuthGate(status, offered, accepted, declined) ==
    /\ pc = "facade"
    /\ Len(Entries(params.sequenceStack)) <= MaxFacadeStack
    /\ params.sequenceCurrent \in DOMAIN sequences
    /\ sequences[params.sequenceCurrent].authRequired
    /\ LET p0 == [params EXCEPT !.offeredAgent = offered,
                                !.offeredAgentAccepted = accepted,
                                !.offeredAgentDeclined = declined]
           c0 == (CTX_AUTH :> [validationStatus |-> status]) @@ ctxs
       IN /\ isAuthRequired(World(p0, c0, BlankTurn))
          /\ Commit(handleRequireAuthentication(World(p0, c0, BlankTurn)))
          /\ lastOp' = [op |-> "gate", name |-> CTX_AUTH, before |-> p0]
    /\ UNCHANGED <<requests, heap, sequences, intents, intentContexts, pc, connectors, hookCalls>>

NextStack ==
    \/ \E name \in StackNames : Push(name)
    \/ \E name \in StackNames : Pop(name)
    \/ \E name \in StackNames : PopAndNavigate(name)

NextSession ==
    \/ NextStack
    \/ \E status \in {"0", "1", "2"}, offered, accepted, declined \in Flags :
          /\ status # "2" => /\ offered = params.offeredAgent
                             /\ accepted = params.offeredAgentAccepted
                             /\ declined = params.offeredAgentDeclined
          /\ AuthGate(status, offered, accepted, declined)

SpecStack == InitStack /\ [][NextStack]_vars

SpecSession == InitSession /\ [][NextSession]_vars

----------------------------------------------------------------------------
\* The set-up phase: the integrator builds and registers sequences, intents
\* and connectors on a new client.

\* A call of the set-up phase: the object it was given, whether the
\* registration call was reached (the constructor did not throw) and whether
\* the statement threw.
Call(op, arg, called, threw) ==
    [op |-> op, name |-> EMPTY, before |-> NoSession,
     arg |-> arg, called |-> called, threw |-> threw]

SequenceParams(has, name, authRequired) ==
    [has |-> has, name |-> name] @@ Sequence(authRequired, "an activity", UNDEF)

\* Complete sequences (two of them named 'passwordreset'), one without
\* navigate and one without name.
SequenceObjects ==
    { SequenceParams(SequenceRequired, CTX_PWRESET, TRUE),
      SequenceParams(SequenceRequired, CTX_PWRESET, FALSE),
      SequenceParams(SequenceRequired, CTX_RFC, FALSE),
      SequenceParams(SequenceRequired \ {"navigate"}, CTX_AUTH, FALSE),
      SequenceParams(SequenceRequired \ {"name"}, NoName, FALSE) }

IntentParams(has, action, name, waitForReply) ==
    [has |-> has, action |-> action, sequenceName |-> name,
     waitForReply |-> waitForReply, handler |-> "function"]

AllOfIntent == {"action", "sequenceName", "waitForReply", "handler"}

\* Complete intents (two of them for 'ask'), one that leaves sequenceName and
\* waitForReply out, one without handler and one without action.
IntentObjects ==
    { IntentParams(AllOfIntent, ASK, CTX_PWRESET, TRUE),
      IntentParams(AllOfIntent, ASK, CTX_RFC, FALSE),
      IntentParams(IntentRequired, NO, NoName, FALSE),
      IntentParams(AllOfIntent \ {"handler"}, YES, CTX_RFC, FALSE),
      IntentParams(AllOfIntent \ {"action"}, NoName, CTX_RFC, FALSE) }

IntentsParams(has, actions) ==
    [has |-> has, actions |-> actions, sequenceName |-> CTX_PWRESET,
     waitForReply |-> TRUE, handler |-> "function"]

\* Bulk registrations: two new actions, a list whose second action may be
\* registered already, and one without handler.
BulkObjects ==
    { IntentsParams(IntentsRequired \cup {"waitForReply"}, <<YES, LEAF>>),
      IntentsParams(IntentsRequired, <<GRP_LEAF, ASK>>),
      IntentsParams(IntentsRequired \ {"handler"}, <<UNKNOWN>>) }

\* Connectors: two named 'crm', one without session parameters and payload
\* hook, one without name and one without endpoint.
ConnectorObjects ==
    { CRM,
      Connector("crm", [region |-> "apac"]),
      [Connector("telephony", NoParams) EXCEPT !.has = ConnectorRequired],
      [Connector(UNDEF, NoParams) EXCEPT !.has = @ \ {"name"}],
      [Connector("billing", NoParams) EXCEPT !.has = @ \ {"endpoint"}] }

\* How an object reaches a registration call: built by the class constructor,
\* or passed as a plain object.
Builds == {"constructor", "plain"}

\* The number of entries the set-up phase has added to the three registries.
Registered ==
    Cardinality(DOMAIN sequences \ DOMAIN initializeSequenceManager)
        + Cardinality(DOMAIN intents) + Cardinality(DOMAIN connectors.connectors)

InitRegistry ==
    /\ heap = NoHeap
    /\ requests = NoRequests
    /\ sequences = initializeSequenceManager
    /\ intents = << >>
    /\ intentContexts = << >>
    /\ connectors = NewConnectorManager
    /\ hookCalls = NoCalls
    /\ params = NoSession
    /\ ctxs = << >>
    /\ pc = "setup"
    /\ turn = BlankTurn
    /\ lastOp = NoOp

\* client.registerSequence(new Sequence(given)) or client.registerSequence(given)
RegisterSequence(given, built) ==
    /\ pc = "setup"
    /\ Registered < MaxRegistrations
    /\ LET c == IF built = "constructor" THEN newSequence(given) ELSE Built(given)
           r == IF c.threw THEN Thrown(sequences) ELSE registerSequence(sequences, c.object)
       IN /\ sequences' = r.registry
          /\ lastOp' = Call("registerSequence", c.object, ~c.threw, r.threw)
    /\ UNCHANGED <<requests, heap, intents, intentContexts, connectors, hookCalls, params, ctxs, pc, turn>>

\* client.registerIntent(new Intent(given)) or client.registerIntent(given)
RegisterIntent(given, built) ==
    /\ pc = "setup"
    /\ Registered < MaxRegistrations
    /\ LET c == IF built = "constructor" THEN newIntent(given) ELSE Built(given)
           m == IntentManager(intents, intentContexts)
           r == IF c.threw THEN Thrown(m) ELSE registerIntent(m, c.object)
       IN /\ intents' = r.registry.intents
          /\ intentContexts' = r.registry.intentContexts
          /\ lastOp' = Call("registerIntent", c.object, ~c.threw, r.threw)
    /\ UNCHANGED <<requests, heap, sequences, connectors, hookCalls, params, ctxs, pc, turn>>

\* client.registerIntents(given)
RegisterIntents(given) ==
    /\ pc = "setup"
    /\ Registered < MaxRegistrations
    /\ LET r == registerIntents(IntentManager(intents, intentContexts), given)
       IN /\ intents' = r.registry.intents
          /\ intentContexts' = r.registry.intentContexts
          /\ lastOp' = Call("registerIntents", given, TRUE, r.threw)
    /\ UNCHANGED <<requests, heap, sequences, connectors, hookCalls, params, ctxs, pc, turn>>

\* client.registerConnector(new Connector(given)) or client.registerConnector(given)
RegisterConnector(given, built) ==
    /\ pc = "setup"
    /\ Registered < MaxRegistrations
    /\ LET c == IF built = "constructor" THEN newConnector(given) ELSE Built(given)
           r == IF c.threw THEN Thrown(connectors) ELSE registerConnector(connectors, c.object)
       IN /\ connectors' = r.registry
          /\ lastOp' = Call("registerConnector", c.object, ~c.threw, r.threw)
    /\ UNCHANGED <<requests, heap, sequences, intents, intentContexts, hookCalls, params, ctxs, pc, turn>>

NextRegistry ==
    \/ \E given \in SequenceObjects, built \in Builds : RegisterSequence(given, built)
    \/ \E given \in IntentObjects, built \in Builds : RegisterIntent(given, built)
    \/ \E given \in BulkObjects : RegisterIntents(given)
    \/ \E given \in ConnectorObjects, built \in Builds : RegisterConnector(given, built)

SpecRegistry == InitRegistry /\ [][NextRegistry]_vars

----------------------------------------------------------------------------
\* Properties of intent resolution and of the turn (checked under Spec).

TurnBegun == turn.seq0 # EMPTY
HandlerCompleted == turn.done /\ ~turn.thrown /\ turn.key # EMPTY

\* The navigate calls of the turn that the orchestrator made (the fallback,
\* the gating, the authentication gate), as opposed to the handler's own.
OrchestratorNavs == SelectSeq(turn.navs, LAMBDA n : n.by # "handler")

\* C1: whenever the detected action is itself registered, the one handler
\* run in the turn is the one registered under that action, whatever
\* lastAction is and whether or not the composite key or the tail is
\* registered too.
C1_StandaloneFirst ==
    (TurnBegun /\ turn.action \in DOMAIN intents) =>
        /\ turn.branch = "standalone"
        /\ turn.handlers = <<turn.action>>

\* A finished turn for 'no' after 'ask': 'no', 'ask.no' and the tail 'no' are
\* all registered, and the handler of 'no' ran.
C1_Witness ==
    /\ turn.done
    /\ turn.action = NO
    /\ params.lastAction = ASK
    /\ compositeIntentName(params.lastAction, turn.action) \in DOMAIN intents
    /\ turn.handlers = <<NO>>

\* C2: when the detected action is not registered and lastAction + "." +
\* action is, exactly the handler registered under the composite key runs, and
\* the active context it runs with is the context of the sequence associated
\* with lastAction.
C2_Composite ==
    (/\ TurnBegun
     /\ turn.action \notin DOMAIN intents
     /\ compositeIntentName(turn.lastAction, turn.action) \in DOMAIN intents) =>
        /\ turn.branch = "composite"
        /\ turn.handlers = <<compositeIntentName(turn.lastAction, turn.action)>>
        /\ turn.lastAction \in DOMAIN intentContexts
        /\ turn.handlerContext = intentContexts[turn.lastAction]
        /\ turn.handlerContext \in DOMAIN ctxs

\* 'yes' after 'ask': the handler of 'ask.yes' ran in the context of the
\* sequence of 'ask', which is not the sequence 'ask.yes' is registered with.
C2_Witness ==
    /\ turn.done
    /\ turn.action = YES
    /\ turn.lastAction = ASK
    /\ turn.handlers = <<ASK_YES>>
    /\ turn.handlerContext = CTX_PWRESET
    /\ intentContexts[ASK_YES] # CTX_PWRESET

\* C3: when neither the action nor the composite key is registered and the
\* part of the action after its final "." is, exactly the handler registered
\* under that tail runs; an action without "." is its own tail, so the turn
\* falls through to the no-handler fallback.
C3_Templated ==
    (/\ TurnBegun
     /\ turn.action \notin DOMAIN intents
     /\ compositeIntentName(turn.lastAction, turn.action) \notin DOMAIN intents) =>
        /\ (HasTok(turn.action, ".") /\ LastEntryOf(turn.action) \in DOMAIN intents) =>
              /\ turn.branch = "templated"
              /\ turn.handlers = <<LastEntryOf(turn.action)>>
        /\ ~HasTok(turn.action, ".") =>
              /\ turn.branch = "fallback"
              /\ turn.handlers = << >>

\* 'grp.leaf' when lastAction is not 'ask': the handler of 'leaf' ran.
C3_Witness ==
    /\ turn.done
    /\ turn.action = GRP_LEAF
    /\ turn.lastAction # ASK
    /\ turn.branch = "templated"
    /\ turn.handlers = <<LEAF>>

NoneRegistered ==
    /\ TurnBegun
    /\ turn.action \notin DOMAIN intents
    /\ compositeIntentName(turn.lastAction, turn.action) \notin DOMAIN intents
    /\ actiontemplateTail(turn.action) \notin DOMAIN intents

C5_WaitForReply ==
    (HandlerCompleted /\ intents[turn.key].waitForReply) =>
        /\ params.lastAction = turn.key
        /\ OrchestratorNavs = << >>
        /\ ~turn.gate

\* 'grp.leaf' resolved to the waiting intent 'leaf' while the sequence that
\* requires authentication was current and the handler had answered itself.
C5_Witness ==
    /\ HandlerCompleted
    /\ turn.action = GRP_LEAF
    /\ turn.key = LEAF
    /\ params.lastAction = LEAF
    /\ params.sequenceCurrent = CTX_PWRESET
    /\ turn.out = <<HandlerText>>

\* The validation status the authentication gate reads: the stored context's,
\* or the authentication sequence's default when the context is yet to be created.
AuthStatus ==
    IF CTX_AUTH \in DOMAIN ctxs THEN ctxs[CTX_AUTH].validationStatus
    ELSE sequences[CTX_AUTH].params.validationStatus

\* The handler has returned and the gating is about to intercept the turn:
\* the intent does not wait, no response is set, the current sequence requires
\* authentication, the auth-required predicate is true and no validation has
\* been attempted.
AuthInterceptionCase ==
    /\ pc = "returned"
    /\ ~intents[turn.key].waitForReply
    /\ params.responseAlreadySet # "1"
    /\ params.sequenceCurrent \in DOMAIN sequences
    /\ sequences[params.sequenceCurrent].authRequired
    /\ CTX_AUTH \in DOMAIN sequences
    /\ AuthStatus \notin {"1", "2"}
    /\ \/ params.customerIdentified = "0"
       \/ params.customerValidated = "0"
       \/ AuthStatus # "1"

\* The authentication sequence is pushed, is current and is navigated by the gate.
AuthenticationPushed ==
    /\ Len(Entries(params'.sequenceStack)) = Len(Entries(params.sequenceStack)) + 1
    /\ LastEntry(params'.sequenceStack) = CTX_AUTH
    /\ SubSeq(Entries(params'.sequenceStack), 2, Len(Entries(params.sequenceStack)))
         = SubSeq(Entries(params.sequenceStack), 2, Len(Entries(params.sequenceStack)))
    /\ params'.sequenceCurrent = CTX_AUTH
    /\ turn'.gate
    /\ \E i \in 1..Len(turn'.navs) : turn'.navs[i] = [seq |-> CTX_AUTH, by |-> "gate"]

\* The navigate of the sequence that was current after the handler is not
\* invoked by the orchestrator in the turn.
TargetNotNavigated ==
    \A i \in 1..Len(turn'.navs) :
        turn'.navs[i].by # "handler" => turn'.navs[i].seq # params.sequenceCurrent

\* C6 as stated: in the interception case the authentication sequence is
\* pushed, becomes current and is navigated, and the target sequence's own
\* navigate is not invoked in that turn.
C6_AsStated ==
    [][AuthInterceptionCase => (AuthenticationPushed /\ TargetNotNavigated)]_vars

\* C6 as amended: in the interception case the authentication sequence is
\* pushed, becomes current and its navigate is the one navigate the
\* orchestrator invokes; the target sequence's own navigate is not invoked
\* unless the target is the authentication sequence itself.
C6_AuthInterception ==
    [][AuthInterceptionCase =>
          /\ AuthenticationPushed
          /\ SelectSeq(turn'.navs, LAMBDA n : n.by # "handler")
                = <<[seq |-> CTX_AUTH, by |-> "gate"]>>
          /\ params.sequenceCurrent # CTX_AUTH => TargetNotNavigated]_vars

\* A finished turn in which the gate pushed the authentication sequence on
\* top of the sequence the handler had pushed, and navigated it alone.
C6_Witness ==
    /\ turn.done
    /\ turn.gate
    /\ ~turn.thrown
    /\ AuthStatus = "0"
    /\ params.sequenceStack = CTX_RFC \o PIPE \o CTX_PWRESET \o PIPE \o CTX_AUTH
    /\ params.sequenceCurrent = CTX_AUTH
    /\ turn.navs = <<[seq |-> CTX_AUTH, by |-> "gate"]>>

----------------------------------------------------------------------------
\* Properties of the sequence stack (checked under SpecStack and SpecSession).

\* The last facade call was pushSequence on an idle stack: the stack string
\* before it was exactly 'welcome' or ''.
PushedOnIdle ==
    /\ lastOp.op = "push"
    /\ lastOp.before.sequenceStack \in {CTX_WELCOME, EMPTY}

\* C7: pushSequence(name) on a stack that is exactly 'welcome' or '' makes
\* name the current sequence and leaves the stack 'reasonforcontact|name', or
\* 'reasonforcontact' alone when name is 'reasonforcontact'; triggeredSkill is
\* set to '1' exactly when name is not 'reasonforcontact'.
C7_PushOnIdle ==
    PushedOnIdle =>
        /\ params.sequenceCurrent = lastOp.name
        /\ params.sequenceStack =
              IF lastOp.name = CTX_RFC THEN CTX_RFC
              ELSE CTX_RFC \o PIPE \o lastOp.name
        /\ params.triggeredSkill =
              IF lastOp.name # CTX_RFC THEN "1" ELSE lastOp.before.triggeredSkill

\* pushSequence('authentication') on the stack 'welcome' with no skill
\* triggered left 'reasonforcontact|authentication'.
C7_Witness ==
    /\ lastOp.op = "push"
    /\ lastOp.name = CTX_AUTH
    /\ lastOp.before.sequenceStack = CTX_WELCOME
    /\ lastOp.before.triggeredSkill = "0"
    /\ params.sequenceStack = CTX_RFC \o PIPE \o CTX_AUTH
    /\ params.triggeredSkill = "1"

\* C8: popSequence(name) on a stack string holding a '|' removes the last
\* entry whatever name is, makes the new last entry the current sequence, and
\* raises no exception when name is not the entry removed.
C8_PopRemovesTop ==
    (lastOp.op = "pop" /\ HasTok(lastOp.before.sequenceStack, "|")) =>
        LET before == Entries(lastOp.before.sequenceStack) IN
        /\ Entries(params.sequenceStack) = SubSeq(before, 1, Len(before) - 1)
        /\ params.sequenceCurrent = before[Len(before) - 1]
        /\ ~turn.thrown

\* popSequence('authentication') on 'reasonforcontact|passwordreset' removed
\* 'passwordreset'.
C8_Witness ==
    /\ lastOp.op = "pop"
    /\ lastOp.name = CTX_AUTH
    /\ lastOp.before.sequenceStack = CTX_RFC \o PIPE \o CTX_PWRESET
    /\ params.sequenceStack = CTX_RFC
    /\ params.sequenceCurrent = CTX_RFC

\* C9: popSequence(name) on a stack string without '|' (a single entry or
\* the empty string) leaves both the stack and the current sequence equal to
\* 'reasonforcontact', whatever name is.
C9_PopSingle ==
    (lastOp.op = "pop" /\ ~HasTok(lastOp.before.sequenceStack, "|")) =>
        /\ params.sequenceStack = CTX_RFC
        /\ params.sequenceCurrent = CTX_RFC

\* popSequence('passwordreset') on the single entry 'passwordreset'.
C9_Witness ==
    /\ lastOp.op = "pop"
    /\ lastOp.name = CTX_PWRESET
    /\ lastOp.before.sequenceStack = CTX_PWRESET
    /\ params.sequenceStack = CTX_RFC
    /\ params.sequenceCurrent = CTX_RFC

\* C10: starting from a newly created session, after any series of
\* pushSequence, popSequence, popSequenceAndNavigate and authentication-gate
\* pushes the stack is non-empty and its last entry is the current sequence.
C10_StackInvariant ==
    /\ params.sequenceStack # EMPTY
    /\ Entries(params.sequenceStack) # << >>
    /\ LastEntry(params.sequenceStack) = params.sequenceCurrent

\* The gate pushed the authentication sequence on top of a pushed skill, after
\* an earlier pop.
C10_Witness ==
    /\ lastOp.op = "gate"
    /\ turn.gate
    /\ Len(Entries(lastOp.before.sequenceStack)) = 2
    /\ params.sequenceStack = lastOp.before.sequenceStack \o PIPE \o CTX_AUTH
    /\ params.sequenceCurrent = CTX_AUTH

----------------------------------------------------------------------------
\* Properties of the session bootstrap and of the end of a request.

\* The payload hooks of the registered connectors.
ConnectorHooks ==
    {connectors.payloadHandlers[i] : i \in 1..Len(connectors.payloadHandlers)}

\* C11: over every sequence of turns of one session, turns in which a hook or
\* a handler throws included, the base payload hook and each registered
\* connector payload hook are invoked exactly once and the lookup hook at most
\* once; sessionInitialized is '1' from the first turn on, and a turn that
\* starts with sessionInitialized = '1' invokes none of the hooks.
C11_OnceOnlyBootstrap ==
    /\ [](\A h \in Hooks : hookCalls[h] <= 1)
    /\ [](params # NoSession =>
             /\ params.sessionInitialized = "1"
             /\ \A h \in {BASE_HOOK} \cup ConnectorHooks : hookCalls[h] = 1)
    /\ [][Bootstrapped => hookCalls' = hookCalls]_vars

\* C12: at the end of every request whose steps complete, whichever
\* resolution branch and whichever gating branch was taken, responseAlreadySet
\* is '0' in the session context written back to the host store.
C12_ResponseFlagReset ==
    (turn.done /\ ~turn.thrown) => params.responseAlreadySet = "0"

\* A completed turn whose handler answered itself (and so had set
\* responseAlreadySet) on a composite intent that does not wait.
C12_Witness ==
    /\ turn.done
    /\ ~turn.thrown
    /\ turn.branch = "composite"
    /\ ~intents[turn.key].waitForReply
    /\ turn.out = <<HandlerText>>
    /\ turn.navs = << >>
    /\ params.responseAlreadySet = "0"

----------------------------------------------------------------------------
\* Properties of the authentication gate (checked under SpecSession).

\* The last facade call was the authentication gate, entered with the given
\* validation status.
GateEntered(status) ==
    /\ lastOp.op = "gate"
    /\ CTX_AUTH \in DOMAIN ctxs
    /\ ctxs[CTX_AUTH].validationStatus = status

\* C13: in the authentication gate with validationStatus = '2' and
\* offeredAgent = '0', lastFulfillmentText is set to the apology text built
\* from the current sequence's activity, a follow-up event is raised, no
\* sequence's navigate is invoked in the turn, and sequenceStack and
\* sequenceCurrent are left unchanged.
C13_GateOffersAgent ==
    (GateEntered("2") /\ lastOp.before.offeredAgent = "0") =>
        /\ params.lastFulfillmentText =
              apology(sequences[lastOp.before.sequenceCurrent]._activity)
        /\ Len(turn.events) = 1
        /\ turn.navs = << >>
        /\ params.sequenceStack = lastOp.before.sequenceStack
        /\ params.sequenceCurrent = lastOp.before.sequenceCurrent

\* C20: in the authentication gate entered with validationStatus = '1',
\* customerValidated is set to '1', the navigate of the current sequence is
\* invoked and nothing else happens: the authentication sequence is not
\* pushed, sequenceStack and sequenceCurrent are unchanged, and the
\* authentication sequence's navigate is not invoked.
C20_GateSelfHeals ==
    GateEntered("1") =>
        /\ params.customerValidated = "1"
        /\ turn.navs = <<[seq |-> lastOp.before.sequenceCurrent, by |-> "gate"]>>
        /\ params.sequenceStack = lastOp.before.sequenceStack
        /\ params.sequenceCurrent = lastOp.before.sequenceCurrent

----------------------------------------------------------------------------
\* Properties of the registries (checked under SpecRegistry).

\* C14: in each of the sequence, intent and connector registries, registering
\* an entry whose key is already present throws and leaves the registry
\* unchanged: the first registration is still the entry of that key and no
\* other entry is added or removed.  A bulk registration that throws keeps
\* every entry registered before it.
C14_RegisterOnce ==
    [][LET call == lastOp' IN
       /\ (/\ call.op = "registerSequence"
           /\ call.called
           /\ sequenceName(call.arg) \in DOMAIN sequences) =>
              (call.threw /\ sequences' = sequences)
       /\ (/\ call.op = "registerIntent"
           /\ call.called
           /\ intentAction(call.arg) \in DOMAIN intents) =>
              (call.threw /\ intents' = intents /\ intentContexts' = intentContexts)
       /\ (/\ call.op = "registerConnector"
           /\ call.called
           /\ connectorName(call.arg) \in DOMAIN connectors.connectors) =>
              (call.threw /\ connectors' = connectors)
       /\ (call.op = "registerIntents" /\ call.threw) =>
              \A a \in DOMAIN intents :
                  /\ a \in DOMAIN intents'
                  /\ intents'[a] = intents[a]
                  /\ intentContexts'[a] = intentContexts[a]]_vars

\* A second sequence named 'passwordreset', with a different authRequired, was
\* refused: the first one is still registered.
C14_Witness ==
    /\ lastOp.op = "registerSequence"
    /\ lastOp.called
    /\ lastOp.threw
    /\ lastOp.arg.name = CTX_PWRESET
    /\ ~lastOp.arg.authRequired
    /\ sequences[CTX_PWRESET].authRequired

\* The fields a registration call requires of the object it is given.
RequiredBy(op) ==
    IF op = "registerSequence" THEN SequenceRequired
    ELSE IF op = "registerIntent" THEN IntentRequired
    ELSE IF op = "registerIntents" THEN IntentsRequired
    ELSE ConnectorRequired

RegistrationCalls ==
    {"registerSequence", "registerIntent", "registerIntents", "registerConnector"}

\* C16: every registration call throws and registers nothing when the object
\* it is given lacks a required field, whether the object was built by the
\* Sequence, Intent or Connector constructor or passed as a plain object.
C16_MisconfiguredThrows ==
    [][LET call == lastOp' IN
       (/\ call.op \in RegistrationCalls
        /\ ~(RequiredBy(call.op) \subseteq call.arg.has)) =>
           /\ call.threw
           /\ sequences' = sequences
           /\ intents' = intents
           /\ intentContexts' = intentContexts
           /\ connectors' = connectors]_vars

----------------------------------------------------------------------------
\* Properties of turns whose hooks, handlers and navigate functions may throw
\* (checked under SpecBoot).

\* The last connector of a list whose default-parameter bundle has the key.
Keeper(list, key) ==
    CHOOSE i \in 1..Len(list) :
        /\ key \in DOMAIN list[i].sessionParams
        /\ \A j \in (i + 1)..Len(list) : key \notin DOMAIN list[j].sessionParams

\* C15: whenever a new session context is created, for every connector
\* registered before that turn each key of its default-parameter bundle is in
\* the new session's parameters, with the value of the bundle registered last
\* among those that have the key.
C15_ConnectorDefaults ==
    [][(params = NoSession /\ params' # NoSession) =>
          \A list \in ConnectorLists :
              connectors = registerConnectors(NewConnectorManager, list) =>
                  \A i \in 1..Len(list) : \A key \in DOMAIN list[i].sessionParams :
                      /\ key \in DOMAIN params'
                      /\ params'[key] = list[Keeper(list, key)].sessionParams[key]]_vars

\* A session created after 'crm' and then 'telephony' were registered: the
\* region is telephony's, the instance is crm's.
C15_Witness ==
    /\ params # NoSession
    /\ connectors = registerConnectors(NewConnectorManager, <<CRM, TELEPHONY>>)
    /\ params.region = TELEPHONY.sessionParams.region
    /\ params.region # CRM.sessionParams.region
    /\ params.crmInstance = CRM.sessionParams.crmInstance

\* The calls of a handler body.
Calls(body) == {body[i] : i \in 1..Len(body)}

\* A bootstrap hook threw in the turn.
HookFailed == turn.thrown /\ turn.hooks # << >> /\ turn.branch = "none"

\* The intent handler threw in the turn.
HandlerFailed == turn.thrown /\ lastOp.op = "handler"

\* C17: when a bootstrap hook, an intent handler or a navigate function
\* throws during a turn, the request still returns; none of the remaining
\* steps of the turn (lastAction update, response emission, authentication
\* gate, navigate, end-of-turn reset) is executed; and every context write
\* made before the failure is still in the host store.
C17_FailureContained ==
    /\ [](turn.thrown => (turn.done /\ pc = "idle"))
    /\ [](HookFailed =>
             /\ params # NoSession
             /\ params.sessionInitialized = "0"
             /\ Len(turn.hooks) > 1 => "interactionSource" \in DOMAIN params
             /\ turn.handlers = << >>
             /\ turn.navs = << >>
             /\ turn.out = << >>
             /\ ~turn.gate)
    /\ [](HandlerFailed =>
             /\ params.lastAction = lastOp.before.lastAction
             /\ OrchestratorNavs = << >>
             /\ ~turn.gate
             /\ Op("respond", EMPTY) \in Calls(lastOp.name) =>
                   /\ params.responseAlreadySet = "1"
                   /\ turn.out = <<HandlerText>>
             /\ Op("push", CTX_PWRESET) \in Calls(lastOp.name) =>
                   /\ params.sequenceCurrent = CTX_PWRESET
                   /\ LastEntry(params.sequenceStack) = CTX_PWRESET
             /\ Calls(lastOp.name) = {Op("throw", EMPTY)} => params = lastOp.before)
    /\ [][(turn'.thrown /\ pc = "returned") =>
             /\ params' = params
             /\ \A name \in DOMAIN ctxs : name \in DOMAIN ctxs' /\ ctxs'[name] = ctxs[name]
             /\ turn'.out = turn.out]_vars
    /\ [][(turn'.thrown /\ pc = "idle" /\ params # NoSession) =>
             /\ params'.responseAlreadySet = params.responseAlreadySet
             /\ params'.lastAction = params.lastAction
             /\ params'.sequenceStack = params.sequenceStack
             /\ turn'.branch = "fallback" =>
                   /\ params'.lastFulfillmentText = turn'.dflt
                   /\ turn'.navs = <<[seq |-> turn'.seq0, by |-> "fallback"]>>]_vars

\* A handler pushed 'passwordreset' and then threw: the request returned, the
\* push is in the store and nothing was navigated.
C17_Witness ==
    /\ HandlerFailed
    /\ turn.done
    /\ lastOp.name = <<Op("push", CTX_PWRESET), Op("throw", EMPTY)>>
    /\ lastOp.before.sequenceCurrent = CTX_RFC
    /\ params.sequenceStack = CTX_RFC \o PIPE \o CTX_PWRESET
    /\ turn.navs = << >>

----------------------------------------------------------------------------
\* Unwinding of the sequence stack (checked under SpecSession).

\* The session parameters popSequence can leave after n more calls, with any
\* requested names.
RECURSIVE AfterPops(_, _)
AfterPops(sessions, n) ==
    IF n = 0 THEN sessions
    ELSE AfterPops({popSequence(p, name) : p \in sessions, name \in StackNames}, n - 1)

\* C18: from every stack reachable by push and pop from a new session, if the
\* stack has k entries then k consecutive pops, with any requested names,
\* leave sequenceStack and sequenceCurrent equal to 'reasonforcontact', and
\* every further pop leaves both unchanged.
C18_FullUnwinding ==
    \A p \in AfterPops({params}, Len(Entries(params.sequenceStack))) :
        /\ p.sequenceStack = CTX_RFC
        /\ p.sequenceCurrent = CTX_RFC
        /\ \A q \in AfterPops({p}, 1) \cup AfterPops({p}, 2) :
              /\ q.sequenceStack = CTX_RFC
              /\ q.sequenceCurrent = CTX_RFC

\* The pop that unwound the pushed authentication sequence, a skill having
\* been triggered before.
C18_Witness ==
    /\ lastOp.op = "pop"
    /\ lastOp.name = EMPTY
    /\ lastOp.before.sequenceStack = CTX_RFC \o PIPE \o CTX_AUTH
    /\ lastOp.before.triggeredSkill = "1"
    /\ params.sequenceStack = CTX_RFC
    /\ params.sequenceCurrent = CTX_RFC

----------------------------------------------------------------------------
\* Navigation after the handler (checked under Spec).

\* The authentication gate applies to the sequence that is current after the
\* handler.
GateApplies ==
    /\ sequences[params.sequenceCurrent].authRequired
    /\ \/ params.customerIdentified = "0"
       \/ params.customerValidated = "0"
       \/ AuthStatus # "1"

\* C19: when the resolved intent does not wait for a reply, responseAlreadySet
\* is not set and the authentication gate does not apply, the orchestrator
\* invokes navigate exactly once, on the sequence sequenceCurrent names after
\* the handler has run, not on the sequence that was current when the turn
\* started.
C19_NavigatesPostHandler ==
    [][(/\ pc = "returned"
        /\ ~intents[turn.key].waitForReply
        /\ params.responseAlreadySet # "1"
        /\ params.sequenceCurrent \in DOMAIN sequences
        /\ ~GateApplies) =>
           SelectSeq(turn'.navs, LAMBDA n : n.by # "handler")
              = <<[seq |-> params.sequenceCurrent, by |-> "orchestrator"]>>]_vars

\* A turn that started on 'reasonforcontact' and whose handler pushed
\* 'passwordreset', the customer being validated: navigate was invoked once,
\* on 'passwordreset'.
C19_Witness ==
    /\ turn.done
    /\ ~turn.thrown
    /\ ~turn.gate
    /\ turn.seq0 = CTX_RFC
    /\ params.sequenceCurrent = CTX_PWRESET
    /\ turn.navs = <<[seq |-> CTX_PWRESET, by |-> "orchestrator"]>>

----------------------------------------------------------------------------
\* Properties of the authentication gate and of its escalation branches.

\* C21: whenever the orchestrator delegates a turn to the authentication gate
\* the authentication context's validationStatus is not '1'; that is, the
\* auth-required predicate is false in every state in which validationStatus
\* is '1'.
C21_GateExcludesValidated ==
    /\ turn.gate => ctxs[CTX_AUTH].validationStatus # "1"
    /\ (/\ params # NoSession
        /\ CTX_AUTH \in DOMAIN ctxs
        /\ ctxs[CTX_AUTH].validationStatus = "1") =>
           ~isAuthRequired(World(params, ctxs, turn))

\* C22: in the authentication gate with validationStatus = '2', the follow-up
\* event raised on the host transport is named 'OfferSpeakToAgent' when
\* offeredAgent = '0', and 'EscalateToAgent' when offeredAgent is not '0' and
\* offeredAgentAccepted = '1'; after the gate the session's lastEvent is that
\* event name.
C22_NamedEscalationEvents ==
    GateEntered("2") =>
        /\ lastOp.before.offeredAgent = "0" =>
              /\ turn.events = <<"OfferSpeakToAgent">>
              /\ params.lastEvent = "OfferSpeakToAgent"
        /\ (lastOp.before.offeredAgent # "0" /\ lastOp.before.offeredAgentAccepted = "1") =>
              /\ turn.events = <<"EscalateToAgent">>
              /\ params.lastEvent = "EscalateToAgent"

\* C24: while the authentication context's validationStatus is '2', the
\* authentication gate neither pushes the authentication sequence onto the
\* stack nor navigates it, for every combination of the offeredAgent,
\* offeredAgentAccepted and offeredAgentDeclined flags.
C24_FailedNeverPushes ==
    GateEntered("2") =>
        /\ ~(/\ Len(Entries(params.sequenceStack))
                   = Len(Entries(lastOp.before.sequenceStack)) + 1
             /\ LastEntry(params.sequenceStack) = CTX_AUTH)
        /\ \A i \in 1..Len(turn.navs) : turn.navs[i].seq # CTX_AUTH

----------------------------------------------------------------------------
\* The active context of a turn (checked under Spec).

\* The context fetched for the detected action at the start of the turn.
ContextOfAction ==
    IF turn.action \in DOMAIN intentContexts THEN intentContexts[turn.action] ELSE NOCTX

\* C28: the active context is replaced by the context associated with
\* lastAction only when resolution succeeds as composite: in a turn that
\* resolves as templated or falls to the no-handler fallback, the active
\* context seen by the handler or by navigate is still the context fetched for
\* the detected action at the start of the turn.
C28_ContextKeptUnlessComposite ==
    (TurnBegun /\ turn.branch \in {"templated", "fallback"}) =>
        /\ turn.context = ContextOfAction
        /\ turn.branch = "templated" => turn.handlerContext = ContextOfAction

----------------------------------------------------------------------------
\* The order of the gating checks after the handler (checked under Spec).

\* C25: the responseAlreadySet check is evaluated before the waitForReply
\* check, which is evaluated before the authentication check: with the flag
\* set the orchestrator emits nothing, navigates nothing and does not enter
\* the gate; with the flag not set, a turn whose intent waits for a reply emits
\* lastFulfillmentText and stops without entering the gate, even if the
\* current sequence requires authentication and the auth-required predicate is
\* true; the gate is entered only when neither of the two applies.
C25_GatingOrder ==
    [][pc = "returned" =>
          /\ params.responseAlreadySet = "1" =>
                /\ turn'.out = turn.out
                /\ turn'.navs = turn.navs
                /\ ~turn'.gate
          /\ (params.responseAlreadySet # "1" /\ intents[turn.key].waitForReply) =>
                /\ turn'.out = Append(turn.out, params.lastFulfillmentText)
                /\ turn'.navs = turn.navs
                /\ ~turn'.gate
                /\ ~turn'.thrown
          /\ (/\ params.responseAlreadySet # "1"
              /\ ~intents[turn.key].waitForReply
              /\ params.sequenceCurrent \in DOMAIN sequences
              /\ GateApplies) => turn'.gate]_vars

\* The waiting intent 'leaf' on the sequence that requires authentication,
\* no validation having succeeded: the text stored by an earlier turn was
\* emitted and the gate was not entered.
C25_Witness ==
    /\ turn.done
    /\ turn.key = LEAF
    /\ params.sequenceCurrent = CTX_PWRESET
    /\ sequences[CTX_PWRESET].authRequired
    /\ params.customerValidated = "0"
    /\ params.lastFulfillmentText \in DefaultTexts
    /\ turn.out = <<params.lastFulfillmentText>>
    /\ ~turn.gate

\* C26: when the handler leaves responseAlreadySet set, the orchestrator
\* emits no response text or event of its own, invokes no navigate and does
\* not enter the authentication gate; it sets lastAction to the resolved
\* action only if the intent waits for a reply, and otherwise leaves
\* lastAction, sequenceStack and sequenceCurrent as the handler left them.
C26_ResponseAlreadySet ==
    [][(pc = "returned" /\ params.responseAlreadySet = "1") =>
          /\ turn'.out = turn.out
          /\ turn'.events = turn.events
          /\ turn'.navs = turn.navs
          /\ ~turn'.gate
          /\ ~turn'.thrown
          /\ params'.lastAction =
                IF intents[turn.key].waitForReply THEN turn.key ELSE params.lastAction
          /\ params'.sequenceStack = params.sequenceStack
          /\ params'.sequenceCurrent = params.sequenceCurrent]_vars

\* The reply 'ask.grp.leaf', which does not wait: its handler pushed
\* 'passwordreset' and answered, and the orchestrator left lastAction 'ask'
\* and the pushed sequence alone.
C26_Witness ==
    /\ turn.done
    /\ ~turn.thrown
    /\ turn.key = ASK_GRP_LEAF
    /\ params.lastAction = ASK
    /\ params.sequenceCurrent = CTX_PWRESET
    /\ LastEntry(params.sequenceStack) = CTX_PWRESET
    /\ turn.out = <<HandlerText>>
    /\ turn.navs = << >>
    /\ ~turn.gate

----------------------------------------------------------------------------
\* The declined escalation (checked under SpecSession).

\* The entries of the stack the gate was entered with.
EntriesBefore == Entries(lastOp.before.sequenceStack)

\* The gate was entered with validationStatus = '2' and the flags of a
\* declined offer, on a stack whose entry beneath the current sequence names
\* a registered sequence.
DeclinedCase ==
    /\ GateEntered("2")
    /\ lastOp.before.offeredAgent # "0"
    /\ lastOp.before.offeredAgentAccepted # "1"
    /\ lastOp.before.offeredAgentDeclined = "1"
    /\ Len(EntriesBefore) > 1
    /\ EntriesBefore[Len(EntriesBefore) - 1] \in DOMAIN sequences

\* C23: in the authentication gate with validationStatus = '2', offeredAgent
\* not '0', offeredAgentAccepted not '1' and offeredAgentDeclined = '1', the
\* three offer flags are reset to '0', the sequence that is current (the top
\* of the stack) when the gate runs is the one popped, sequenceCurrent becomes
\* the entry beneath it, and the navigate of that sequence is invoked exactly
\* once.
C23_DeclinedEscalation ==
    DeclinedCase =>
        /\ params.offeredAgent = "0"
        /\ params.offeredAgentAccepted = "0"
        /\ params.offeredAgentDeclined = "0"
        /\ EntriesBefore[Len(EntriesBefore)] = lastOp.before.sequenceCurrent
        /\ Entries(params.sequenceStack) = SubSeq(EntriesBefore, 1, Len(EntriesBefore) - 1)
        /\ params.sequenceCurrent = EntriesBefore[Len(EntriesBefore) - 1]
        /\ turn.navs = <<[seq |-> EntriesBefore[Len(EntriesBefore) - 1], by |-> "gate"]>>
        /\ ~turn.thrown

\* The offer was declined while the authentication sequence, which requires
\* authentication itself, was current: it was popped, although the gate asks
\* for 'passwordreset', and 'reasonforcontact' was navigated.
C23_Witness ==
    /\ DeclinedCase
    /\ lastOp.before.sequenceCurrent = CTX_AUTH
    /\ lastOp.before.sequenceStack = CTX_RFC \o PIPE \o CTX_AUTH
    /\ params.sequenceStack = CTX_RFC
    /\ params.sequenceCurrent = CTX_RFC
    /\ turn.navs = <<[seq |-> CTX_RFC, by |-> "gate"]>>

----------------------------------------------------------------------------
\* Bootstrap ordering.

NamesOf(list) == [i \in 1..Len(list) |-> list[i].name]

IsPrefix(a, b) == Len(a) <= Len(b) /\ a = SubSeq(b, 1, Len(a))

IsSuffix(a, b) == Len(a) <= Len(b) /\ a = SubSeq(b, Len(b) - Len(a) + 1, Len(b))

LookupCondition ==
    params.customerIdentified = "0" \/ params.interactionSource = "phone"

\* C27: in a turn that bootstraps the session the client's payload hook is
\* awaited first, then the payload hook of each registered connector in
\* registration order, each hook being given the context the previous one
\* returned (so that the context ends up populated by all of them, in that
\* order), then the lookup hook, which runs exactly when that context has
\* customerIdentified = '0' or interactionSource = 'phone'; sessionInitialized
\* becomes '1' only when all of them have returned, and no intent handler is
\* called before that.
C27_BootstrapOrder ==
    \A list \in ConnectorLists :
        connectors = registerConnectors(NewConnectorManager, list) =>
            LET order == <<BASE_HOOK>> \o NamesOf(list) IN
            /\ turn.hooks # << >> =>
                  /\ IsPrefix(turn.hooks, order \o <<LOOKUP_HOOK>>)
                  /\ params.sessionInitialized = "1" => IsSuffix(turn.hooks, params.populatedBy)
                  /\ ~turn.thrown => params.sessionInitialized = "1"
                  /\ params.sessionInitialized = "1" =>
                        /\ IsPrefix(order, turn.hooks)
                        /\ Len(turn.hooks) > Len(order) <=> LookupCondition
                  /\ params.sessionInitialized # "1" => turn.handlers = << >>
            /\ turn.handlers # << >> => params.sessionInitialized = "1"

C27_Witness ==
    /\ connectors = registerConnectors(NewConnectorManager, <<TELEPHONY, CRM>>)
    /\ turn.hooks = <<BASE_HOOK, TELEPHONY.name, CRM.name, LOOKUP_HOOK>>
    /\ params.populatedBy = turn.hooks
    /\ params.customerIdentified = "0"
    /\ params.interactionSource = "chat"
    /\ params.sessionInitialized = "1"
    /\ turn.handlers # << >>

----------------------------------------------------------------------------
\* Context lifespans.

\* C29: the session context is stored with lifespan 99 at the end of every
\* completed turn, every write of the turn, the one at the end of the turn
\* included, having reset the lifespan to the default.
C29_LifespanRefreshed ==
    (params # NoSession /\ turn.done /\ ~turn.thrown) =>
        params.lifespan = DEF_CTX_LIFESPAN

----------------------------------------------------------------------------
\* Per-sequence contexts as objects: ContextManager.getOrCreateCtx / createCtx
\* and the facade calls that write or delete a context, call by call.

\* The object a sequence holds as its params, and the object createCtx makes
\* for the parameters of the context of that name.
ParamsOf(name) == <<"sequence.params", name>>
ParametersOf(name) == <<"context.parameters", name>>

CreateCtxSharesParams(objects, name, paramsRef, lifespan) ==
    [context |-> [name |-> name, lifespan |-> lifespan, parameters |-> paramsRef],
     objects |-> objects]

\* A new context whose parameters object receives params' own properties.
createCtx(objects, name, paramsRef, lifespan) ==
    [context |-> [name |-> name, lifespan |-> lifespan,
                  parameters |-> ParametersOf(name)],
     objects |-> (ParametersOf(name) :>
                     [param \in DOMAIN objects[paramsRef] |-> objects[paramsRef][param]])
                 @@ objects]

\* ContextManager.getOrCreateCtx on the store: what it returns, the store and
\* the objects after it, and whether reading sequence.name threw.
contextManagerGetOrCreateCtx(h, name) ==
    IF name \in DOMAIN h.store
    THEN [heap |-> h, context |-> h.store[name], threw |-> FALSE]
    ELSE IF name \notin DOMAIN sequences
    THEN [heap |-> h, context |-> UNDEF, threw |-> TRUE]
    ELSE LET c == createCtx(h.objects, name, ParamsOf(name), DEF_CTX_LIFESPAN) IN
         [heap |-> [store |-> (name :> c.context) @@ h.store, objects |-> c.objects],
          context |-> c.context, threw |-> FALSE]

\* The names, parameters and values the calls are made with; no sequence is
\* registered as 'billing'.
ContextNames == {CTX_AUTH, CTX_PWRESET, <<"billing">>}
ParamNames == {"validationStatus", "attempts"}
ParamValues == {"1", "2"}

InitContexts ==
    /\ sequences = initializeSequenceManager @@ Skills(FALSE)
    /\ intents = << >>
    /\ intentContexts = << >>
    /\ connectors = NewConnectorManager
    /\ hookCalls = NoCalls
    /\ params = NoSession
    /\ ctxs = << >>
    /\ pc = "contexts"
    /\ turn = BlankTurn
    /\ lastOp = NoOp
    /\ requests = NoRequests
    /\ heap = [store |-> << >>,
               objects |-> [id \in {ParamsOf(name) : name \in DOMAIN sequences} |->
                               sequences[id[2]].params]]

GetOrCreateCtx(name) ==
    /\ pc = "contexts"
    /\ LET r == contextManagerGetOrCreateCtx(heap, name) IN
          /\ heap' = r.heap
          /\ lastOp' = [op |-> "getOrCreateCtx", name |-> name, before |-> heap,
                        returned |-> r.context, threw |-> r.threw]
    /\ UNCHANGED <<requests, sequences, intents, intentContexts, params, ctxs, pc, turn,
                   connectors, hookCalls>>

\* DialogContext.setParam on a context obtained from getOrCreateCtx.
SetParam(name, paramName, paramValue) ==
    /\ pc = "contexts"
    /\ name \in DOMAIN heap.store
    /\ heap' = [heap EXCEPT
                   !.objects[heap.store[name].parameters] = setKey(@, paramName, paramValue),
                   !.store[name] = updateDialogflowEsContext(@)]
    /\ lastOp' = [op |-> "setParam", name |-> name, before |-> heap,
                  returned |-> UNDEF, threw |-> FALSE]
    /\ UNCHANGED <<requests, sequences, intents, intentContexts, params, ctxs, pc, turn,
                   connectors, hookCalls>>

\* DialogContext.deleteCtx: the store forgets the context.
DeleteCtx(name) ==
    /\ pc = "contexts"
    /\ name \in DOMAIN heap.store
    /\ heap' = [store |-> [n \in DOMAIN heap.store \ {name} |-> heap.store[n]],
                objects |-> [id \in DOMAIN heap.objects \ {ParametersOf(name)} |->
                                heap.objects[id]]]
    /\ lastOp' = [op |-> "deleteCtx", name |-> name, before |-> heap,
                  returned |-> UNDEF, threw |-> FALSE]
    /\ UNCHANGED <<requests, sequences, intents, intentContexts, params, ctxs, pc, turn,
                   connectors, hookCalls>>

NextContexts ==
    \/ \E name \in ContextNames : GetOrCreateCtx(name)
    \/ \E name \in ContextNames, paramName \in ParamNames, paramValue \in ParamValues :
          SetParam(name, paramName, paramValue)
    \/ \E name \in ContextNames : DeleteCtx(name)

SpecContexts == InitContexts /\ [][NextContexts]_vars

\* C30: getOrCreateCtx(name) for a registered name absent from the store
\* stores and returns a new context whose parameters are a copy of the
\* sequence's default params, in an object of their own; for a name present
\* in the store it returns the stored context and changes nothing, whatever
\* has been written to it since; and no call ever changes the params a
\* sequence was registered with.
C30_LazyContexts ==
    /\ pc = "contexts" =>
          \A name \in DOMAIN sequences :
              heap.objects[ParamsOf(name)] = sequences[name].params
    /\ (lastOp.op = "getOrCreateCtx" /\ lastOp.name \in DOMAIN sequences) =>
          LET name == lastOp.name
              before == lastOp.before
              context == lastOp.returned
          IN /\ ~lastOp.threw
             /\ heap.store[name] = context
             /\ name \notin DOMAIN before.store =>
                   /\ context.name = name
                   /\ context.parameters # ParamsOf(name)
                   /\ heap.objects[context.parameters] = sequences[name].params
                   /\ heap.store = (name :> context) @@ before.store
                   /\ \A id \in DOMAIN before.objects :
                         heap.objects[id] = before.objects[id]
             /\ name \in DOMAIN before.store =>
                   /\ context = before.store[name]
                   /\ heap = before

\* A second call returns the context with the progress written to it.
C30_Witness ==
    /\ lastOp.op = "getOrCreateCtx"
    /\ lastOp.name = CTX_AUTH
    /\ CTX_AUTH \in DOMAIN lastOp.before.store
    /\ heap.objects[lastOp.returned.parameters].validationStatus = "1"
    /\ sequences[CTX_AUTH].params.validationStatus = "0"
    /\ heap.objects[ParamsOf(CTX_AUTH)].validationStatus = "0"

----------------------------------------------------------------------------
\* Pushes on a stack in use.

\* The last facade call was pushSequence on a stack that is neither 'welcome'
\* nor ''.
PushedOnBusy ==
    /\ lastOp.op = "push"
    /\ lastOp.before.sequenceStack \notin {CTX_WELCOME, EMPTY}

\* C31: pushSequence(name) on a stack that is neither 'welcome' nor '' appends
\* name as the new last entry, keeps the earlier entries in their order, makes
\* name the current sequence and leaves triggeredSkill as it was; and a
\* popSequence(name) that follows it restores the stack and the current
\* sequence the push found.
C31_PushAppends ==
    /\ [](PushedOnBusy =>
            LET before == Entries(lastOp.before.sequenceStack)
                after == Entries(params.sequenceStack)
            IN /\ params.sequenceStack = lastOp.before.sequenceStack \o PIPE \o lastOp.name
               /\ Len(after) = Len(before) + 1
               /\ SubSeq(after, 1, Len(before)) = before
               /\ after[Len(after)] = lastOp.name
               /\ params.sequenceCurrent = lastOp.name
               /\ params.triggeredSkill = lastOp.before.triggeredSkill)
    /\ [][(PushedOnBusy /\ lastOp'.op = "pop" /\ lastOp'.name = lastOp.name) =>
            /\ params'.sequenceStack = lastOp.before.sequenceStack
            /\ params'.sequenceCurrent = lastOp.before.sequenceCurrent]_vars

\* 'passwordreset' was pushed on the stack 'reasonforcontact' with no skill
\* triggered, and popped again.
C31_Witness ==
    /\ lastOp.op = "pop"
    /\ lastOp.name = CTX_PWRESET
    /\ lastOp.before.sequenceStack = CTX_RFC \o PIPE \o CTX_PWRESET
    /\ lastOp.before.triggeredSkill = "0"
    /\ params.sequenceStack = CTX_RFC
    /\ params.sequenceCurrent = CTX_RFC

\* C40: in every state reached by pushes and pops from a new session in
\* which the stack holds an entry other than 'reasonforcontact' and 'welcome',
\* triggeredSkill is '1'.
C40_TriggeredSkillTracksStack ==
    (\E i \in 1..Len(Entries(params.sequenceStack)) :
        Entries(params.sequenceStack)[i] \notin {CTX_RFC, CTX_WELCOME}) =>
            params.triggeredSkill = "1"


----------------------------------------------------------------------------
\* Several sessions served by one DialogFlowEsClient.  The parameters of a
\* session context are a JavaScript object, and the client holds one such
\* object in this._baseParams for as long as it lives.

SessionIds == {"s1", "s2"}

\* How many requests of one session are followed.
MaxSessionTurns == 2

\* The object the integrator passed as baseParams.
BASE_PARAMS == <<"this._baseParams">>

\* The object the host builds from the contexts a later request carries.
RequestParameters(sessionId) == <<"request", sessionId>>

\* The properties createEsSessionProps assigns on this._baseParams (the others
\* are the ones the integrator's object came with), and the lifespan of the
\* context it returns.
AssignedBySessionProps ==
    {"lifespan", "sessionInitialized", "responseAlreadySet", "sequenceCurrent",
     "sequenceStack", "lastEvent", "lastAction", "lastFulfillmentText",
     "triggeredSkill"}

baseParams ==
    [k \in DOMAIN createEsSessionProps \ AssignedBySessionProps |->
        createEsSessionProps[k]]

\* createEsSessionProps(sessionId): the assignments are made on
\* this._baseParams, and the context returned has that object as parameters.
createEsSessionPropsObject(objects, sessionId) ==
    [objects    |-> [objects EXCEPT ![BASE_PARAMS] =
                        assign(@, setKey([k \in AssignedBySessionProps |->
                                             createEsSessionProps[k]],
                                         "sessionId", sessionId))],
     parameters |-> BASE_PARAMS,
     created    |-> TRUE]

\* getOrCreateEsSessionProps(agent): the context the request carries, or a new
\* one with the registered default parameter sets assigned on its parameters.
getOrCreateEsSessionPropsObject(h, sessionId) ==
    IF sessionId \in DOMAIN h.store
    THEN [objects    |-> (RequestParameters(sessionId) :>
                             agedByHost(h.store[sessionId].parameters)) @@ h.objects,
          parameters |-> RequestParameters(sessionId),
          created    |-> FALSE]
    ELSE LET c == createEsSessionPropsObject(h.objects, sessionId) IN
         [c EXCEPT !.objects[c.parameters] = mergeSets(@, connectors.parameterSets)]

\* The response leaves: the host keeps the contexts as the JSON they were
\* written to, and the objects built for the request are dropped.
respond(h, sessionId, parameters, w) ==
    [store   |-> (sessionId :> [parameters |-> w.p, contexts |-> w.c]) @@ h.store,
     objects |-> [id \in DOMAIN h.objects \ {RequestParameters(sessionId)} |->
                     IF id = parameters THEN w.p ELSE h.objects[id]]]

\* The request in flight of a session.
Request(position, parameters, contexts, t, turns) ==
    [pc |-> position, parameters |-> parameters, contexts |-> contexts, t |-> t,
     turns |-> turns]

InitSessions ==
    /\ sequences \in SequenceConfigs
    /\ intents \in IntentConfigs
    /\ intentContexts = [a \in DOMAIN intents |-> intents[a].sequenceName]
    /\ connectors = registerConnectors(NewConnectorManager, <<CRM>>)
    /\ hookCalls = NoCalls
    /\ params = NoSession
    /\ ctxs = << >>
    /\ turn = BlankTurn
    /\ lastOp = NoOp
    /\ pc = "sessions"
    /\ heap = [store |-> << >>, objects |-> (BASE_PARAMS :> baseParams)]
    /\ requests = [sessionId \in SessionIds |->
                      Request("idle", UNDEF, << >>, BlankTurn, 0)]

SessionActions == {ASK, UNKNOWN}

SessionPayloads == {Payload("chat", identified, NO_HOOK) : identified \in {"0", "1"}}

SessionBodies == { << >>, <<Op("push", CTX_PWRESET)>>, <<Op("validate", <<"1">>)>> }

\* A request of a session arrives while none of its own is in flight:
\* intentHandler runs up to the awaited handler.
RequestArrives(sessionId, action, dflt, payload) ==
    /\ pc = "sessions"
    /\ requests[sessionId].pc = "idle"
    /\ requests[sessionId].turns < MaxSessionTurns
    /\ \E r \in {getOrCreateEsSessionPropsObject(heap, sessionId)} :
       \E w \in {startRequest(r.objects[r.parameters],
                              IF sessionId \in DOMAIN heap.store
                              THEN heap.store[sessionId].contexts ELSE << >>,
                              action, dflt, payload)} :
          /\ heap' = IF w.t.done
                     THEN respond([heap EXCEPT !.objects = r.objects], sessionId,
                                  r.parameters, w)
                     ELSE [heap EXCEPT !.objects =
                              [r.objects EXCEPT ![r.parameters] = w.p]]
          /\ requests' = [requests EXCEPT ![sessionId] =
                             Request(IF w.t.done THEN "idle" ELSE "handler",
                                     r.parameters, w.c, w.t, @.turns + 1)]
          /\ lastOp' = [op |-> "request", name |-> sessionId, before |-> heap,
                        created |-> r.created,
                        initial |-> r.objects[r.parameters]]
    /\ UNCHANGED <<sequences, intents, intentContexts, params, ctxs, pc, turn,
                   connectors, hookCalls>>

\* The awaited handler of a request resolves or rejects: the rest of
\* intentHandler runs and the response leaves.
HandlerResolves(sessionId, body) ==
    /\ pc = "sessions"
    /\ requests[sessionId].pc = "handler"
    /\ LET current == heap.objects[requests[sessionId].parameters] IN
          /\ Len(Entries(current.sequenceStack)) + Pushes(body) <= MaxStack
          /\ \E h \in {runHandler(World(current, requests[sessionId].contexts,
                                        requests[sessionId].t), body)} :
             \E w \in {IF h.t.thrown THEN endRequest(h)
                       ELSE endRequest(afterHandler(h, h.t.key))} :
                /\ heap' = respond(heap, sessionId, requests[sessionId].parameters, w)
                /\ requests' = [requests EXCEPT ![sessionId] =
                                   Request("idle", @.parameters, w.c, w.t, @.turns)]
    /\ lastOp' = [op |-> "handler", name |-> sessionId, before |-> heap,
                  created |-> FALSE, initial |-> NoSession]
    /\ UNCHANGED <<sequences, intents, intentContexts, params, ctxs, pc, turn,
                   connectors, hookCalls>>

NextSessions ==
    \/ \E sessionId \in SessionIds, action \in SessionActions, dflt \in DefaultTexts,
          payload \in SessionPayloads :
          RequestArrives(sessionId, action, dflt, payload)
    \/ \E sessionId \in SessionIds, body \in SessionBodies :
          HandlerResolves(sessionId, body)

SpecSessions == InitSessions /\ [][NextSessions]_vars

\* A request of one session is suspended at its awaited handler.
Suspended(sessionId) == pc = "sessions" /\ requests[sessionId].pc = "handler"

\* C32: while a request of session S1 is suspended at an await, the arrival of
\* the first request of another session S2, which creates S2's session
\* context, changes no parameter of the session context S1's request holds.
C32_SessionIsolation ==
    [][\A s1 \in SessionIds, s2 \in SessionIds :
          ( /\ s1 # s2
            /\ Suspended(s1)
            /\ requests[s2].turns = 0
            /\ requests'[s2].turns = 1
            /\ lastOp'.created )
          => heap'.objects[requests[s1].parameters]
                = heap.objects[requests[s1].parameters]]_vars

\* C33: the parameters a new session starts with are the base parameters, the
\* connectors' default parameter sets and the session id, whatever the
\* requests of earlier sessions wrote into theirs.
C33_FreshSessionDeterminism ==
    (pc = "sessions" /\ lastOp.op = "request" /\ lastOp.created)
    => lastOp.initial
          = setKey(mergeSets(createEsSessionProps, connectors.parameterSets),
                   "sessionId", lastOp.name)

----------------------------------------------------------------------------
\* Navigation and authentication.

\* C34: on no path of a turn does the orchestrator call navigate on a
\* sequence that requires authentication while isAuthRequired would still
\* answer true.
C34_NoUnauthenticatedNavigation ==
    \A i \in 1..Len(turn.navs) :
        turn.navs[i].by # "handler" => ~turn.navAuth[i]

----------------------------------------------------------------------------
\* The flags a turn hands to the next.

\* C35: between the turns of a session the persisted responseAlreadySet is
\* '0', whatever the handler of the turn before did, so that no turn's gating
\* starts from a flag an earlier turn set.
C35_ResponseFlagNeverCarriesOver ==
    (pc = "idle" /\ params # NoSession) => params.responseAlreadySet = "0"

\* C36: the orchestrator writes lastAction only when the handler of an
\* intent with waitForReply = true has returned, and then to that intent's
\* key.  Every other step of a session, the no-handler fallback and the return
\* of a non-waiting intent's handler included, leaves lastAction as it was, and
\* a turn resolves its composite key against exactly that value.
C36_LastActionOnlyOnWait ==
    [][ /\ (params # NoSession /\ params'.lastAction # params.lastAction)
           => /\ pc = "returned"
              /\ intents[turn.key].waitForReply = TRUE
              /\ params'.lastAction = turn.key
        /\ (pc = "idle" /\ params # NoSession /\ ~turn'.thrown
            /\ turn'.branch \in {"composite", "templated", "fallback"})
           => turn'.lastAction = params.lastAction ]_vars

\* A no-handler fallback turn ended in a session where the waiting intent
\* 'ask' had set lastAction and the gate had since pushed the authentication
\* sequence: lastAction is still 'ask'.
C36_Witness ==
    /\ pc = "idle"
    /\ turn.branch = "fallback"
    /\ turn.navs # << >>
    /\ turn.lastAction = ASK
    /\ params.lastAction = ASK
    /\ params.sequenceCurrent = CTX_AUTH

----------------------------------------------------------------------------
\* The current sequence when sequenceCurrent names no registered sequence.

\* C37: in a turn whose intent is registered and whose sequenceCurrent names
\* no registered sequence, at its start and still when the handler has
\* returned, the rest of the turn (gating and navigation, on the built-in
\* 'unassociated' sequence) raises no error.
C37_UnregisteredCurrentSequence ==
    [][(/\ pc = "returned"
        /\ turn.seq0 = UNASSOCIATED
        /\ params.sequenceCurrent \notin DOMAIN sequences)
       => /\ ~turn'.thrown
          /\ \A i \in 1..Len(turn'.navs) :
                turn'.navs[i].by = "orchestrator" => turn'.navs[i].seq = UNASSOCIATED]_vars

----------------------------------------------------------------------------
\* Registration calls (checked under SpecRegistry and SpecConnectors).

\* C38: a registerIntents call that throws leaves the intent registry as it
\* was before the call, and one that returns has registered every action of
\* its list with the given sequenceName, waitForReply and handler.
C38_BulkAllOrNothing ==
    [][(pc = "setup" /\ lastOp'.op = "registerIntents")
       => IF lastOp'.threw
          THEN intents' = intents /\ intentContexts' = intentContexts
          ELSE \A i \in 1..Len(lastOp'.arg.actions) :
                  LET action == lastOp'.arg.actions[i] IN
                  /\ action \in DOMAIN intents'
                  /\ intents'[action].sequenceName = lastOp'.arg.sequenceName
                  /\ intents'[action].handler = lastOp'.arg.handler
                  /\ intentContexts'[action] = lastOp'.arg.sequenceName]_vars

\* The names and bundles the default parameter manager is called with
\* directly, through connectorManager.getDefaultPropertyManager().
DirectNames == {"crm", "billing"}
DirectParams == {[region |-> "apac"]}

\* getDefaultPropertyManager().registerSessionParameters(name, params)
RegisterSessionParameters(name, paramSet) ==
    /\ pc = "setup"
    /\ Registered < MaxRegistrations
    /\ \E r \in {registerSessionParameters(connectors, name, paramSet)} :
          /\ connectors' = r.registry
          /\ lastOp' = Call("registerSessionParameters", name, TRUE, r.threw)
    /\ UNCHANGED <<requests, heap, sequences, intents, intentContexts, hookCalls,
                   params, ctxs, pc, turn>>

\* getDefaultPropertyManager().registerPayloadHandler(name, handler)
RegisterPayloadHandler(name, handler) ==
    /\ pc = "setup"
    /\ Registered < MaxRegistrations
    /\ \E r \in {registerPayloadHandler(connectors, name, handler)} :
          /\ connectors' = r.registry
          /\ lastOp' = Call("registerPayloadHandler", name, TRUE, r.threw)
    /\ UNCHANGED <<requests, heap, sequences, intents, intentContexts, hookCalls,
                   params, ctxs, pc, turn>>

NextConnectors ==
    \/ \E given \in ConnectorObjects, built \in Builds : RegisterConnector(given, built)
    \/ \E name \in DirectNames, paramSet \in DirectParams :
          RegisterSessionParameters(name, paramSet)
    \/ \E name \in DirectNames : RegisterPayloadHandler(name, name)

SpecConnectors == InitRegistry /\ [][NextConnectors]_vars

\* C39: whatever registerConnector, registerSessionParameters and
\* registerPayloadHandler calls were made, the names with a default-parameter
\* bundle, the names with a payload hook and the names of the registered
\* connectors are the same set, the bundle list and the hook list hold one
\* entry per registered connector, and a registerConnector call that throws
\* changes none of them.
C39_ConnectorRegistriesConsistent ==
    /\ [](pc = "setup" =>
            /\ DOMAIN connectors.parameterMap = DOMAIN connectors.connectors
            /\ DOMAIN connectors.payloadHandlerMap = DOMAIN connectors.connectors
            /\ Len(connectors.parameterSets) = Cardinality(DOMAIN connectors.connectors)
            /\ Len(connectors.payloadHandlers) = Cardinality(DOMAIN connectors.connectors))
    /\ [][(pc = "setup" /\ lastOp'.op = "registerConnector" /\ lastOp'.threw)
          => connectors' = connectors]_vars

====
